---- MODULE Spec2Model ----
(***************************************************************************)
(* A model of the Gousto recipe manager (src/gousto_planner.py): the five  *)
(* persisted tables, the Streamlit session state, the price save path      *)
(* (save_pricing and its three callers), the weekly planner's shopping     *)
(* list and cost computation, the weekly selection and the dashboard's     *)
(* recipe recommendations (get_recipe_recommendations).                    *)
(*                                                                         *)
(* Conventions.                                                            *)
(*  - A table (a pandas DataFrame / a CSV file) is a sequence of records.  *)
(*  - Prices are integers in units of 0.0005 pounds, so that the source's  *)
(*    0.001 threshold is the integer PriceThreshold; 1.00 is 2000, 1.001   *)
(*    is 2002 and 1.50 is 3000.  Arithmetic is exact where the source's is *)
(*    binary floating point.                                               *)
(*  - A missing cell (pandas NaN) is the value NaN.                        *)
(*  - Timestamps are the value of the clock `now`, which every price save  *)
(*    advances.  Where meal history is scored, the clock and the history's *)
(*    week_start dates are day numbers.                                    *)
(*  - A text cell that the code searches for a substring (cook_time) is a  *)
(*    sequence of one-character strings.                                   *)
(***************************************************************************)
EXTENDS Integers, Sequences, FiniteSets, TLC

VARIABLES
    recipes_file,        \* recipes.csv: one row per recipe-ingredient line
    pantry_file,         \* pantry_staples.csv
    pricing_file,        \* ingredient_pricing.csv (<< >>: absent or without rows)
    price_history_file,  \* price_history.csv
    meal_history_file,   \* meal_history.csv
    now,                 \* the wall clock, read by save_pricing
    weekly_recipes,      \* st.session_state.weekly_recipes
    recipe_servings,     \* st.session_state.recipe_servings
    planner,             \* what the last script run computed in the planner tab
    recommendations,     \* what the last script run recommended on the dashboard
    new_recipe_ingredients,  \* st.session_state.new_recipe_ingredients
    add_recipe,          \* what the last use of the "Add New Recipe" form did
    script_runs          \* per browser session, the script run in progress

vars == <<recipes_file, pantry_file, pricing_file, price_history_file,
          meal_history_file, now, weekly_recipes, recipe_servings, planner,
          recommendations, new_recipe_ingredients, add_recipe, script_runs>>

----------------------------------------------------------------------------
(* Bounds of the model. *)

\* The clock stops at MaxClock: at most MaxClock price saves in one behaviour.
MaxClock == 3

\* The servings inputs offer 1..MaxServings (the source offers 1..20).
MaxServings == 2

\* The calendar plans at most MaxPlanned days (the source plans seven).
MaxPlanned == 2

\* The day on which the meal history is scored.
Today == 100

\* The largest number of recipes in the tables that are ranked.
MaxRecipes == 6

\* abs(old - new) > 0.001, in units of 0.0005.
PriceThreshold == 2

----------------------------------------------------------------------------
(* Strings.  The model's strings, in code point order (Python's order of   *)
(* str): upper case letters sort before lower case ones.                   *)

NaN == "NaN"

StrOrder ==
    <<"", "Dairy", "G", "Pasta", "Pepper", "Salad", "Salt", "Stew", "TOMATO",
      "Tomato", "Veg", "Yogurt", "g", "grams", "salt", "tomato", "yogurt">>

StrRank(s) == CHOOSE i \in 1..Len(StrOrder) : StrOrder[i] = s

StrLess(a, b) == StrRank(a) < StrRank(b)

\* str.lower()
Lower(s) ==
    CASE s = "Tomato" -> "tomato"
      [] s = "TOMATO" -> "tomato"
      [] s = "Salt"   -> "salt"
      [] s = "Pasta"  -> "pasta"
      [] s = "Pepper" -> "pepper"
      [] s = "Salad"  -> "salad"
      [] s = "Veg"    -> "veg"
      [] s = "Yogurt" -> "yogurt"
      [] s = "Dairy"  -> "dairy"
      [] s = "G"      -> "g"
      [] OTHER        -> s

Abs(x) == IF x < 0 THEN -x ELSE x

Range(s) == {s[i] : i \in 1..Len(s)}

RECURSIVE Flatten(_)
Flatten(ss) == IF ss = << >> THEN << >> ELSE Head(ss) \o Flatten(Tail(ss))

\* A stable sort of the table s by the integer keys k (k[i] is the key of
\* s[i]): the row at index i goes to the place after every row with a smaller
\* key and every earlier row with the same key.
SortPlace(k, i) ==
    1 + Cardinality({j \in 1..Len(k) : k[j] < k[i] \/ (k[j] = k[i] /\ j < i)})

SortByKey(s, k) ==
    [p \in 1..Len(s) |-> s[CHOOSE i \in 1..Len(s) : SortPlace(k, i) = p]]

----------------------------------------------------------------------------
(* The price table and save_pricing.                                       *)

\* The (ingredient, unit) spellings and the prices a user types.
PriceKeys ==
    {<<"Tomato", "g">>, <<"tomato", "G">>, <<"Salt", "g">>, <<"Tomato", "grams">>}

Prices == {2000, 2002, 3000}

\* A variant of PriceMatch that compares the spellings as they are.
PriceMatchAlt(table, ingredient, unit) ==
    SelectSeq(table, LAMBDA r : r.ingredient = ingredient /\ r.unit = unit)

\* The rows of table whose ingredient and unit equal the given ones, both
\* compared after str.lower().
PriceMatch(table, ingredient, unit) ==
    SelectSeq(table, LAMBDA r : /\ Lower(r.ingredient) = Lower(ingredient)
                                /\ Lower(r.unit) = Lower(unit))

HistoryEntry(ingredient, unit, old_price, new_price, timestamp) ==
    [ingredient |-> ingredient, unit |-> unit, old_price |-> old_price,
     new_price |-> new_price, changed_at |-> timestamp]

\* A variant of RowHistory that records every difference of price, however
\* small.
RowHistoryAlt(row, existing_pricing, timestamp) ==
    IF existing_pricing # << >>
    THEN LET existing == PriceMatch(existing_pricing, row.ingredient, row.unit)
         IN  IF existing # << >>
             THEN IF existing[1].price_per_unit # row.price_per_unit
                  THEN <<HistoryEntry(row.ingredient, row.unit,
                                      existing[1].price_per_unit,
                                      row.price_per_unit, timestamp)>>
                  ELSE << >>
             ELSE <<HistoryEntry(row.ingredient, row.unit, 0,
                                 row.price_per_unit, timestamp)>>
    ELSE << >>

\* The body of save_pricing's loop for one row: the history rows it appends.
\* The loop looks for a former price only when the price file has rows.
RowHistory(row, existing_pricing, timestamp) ==
    IF existing_pricing # << >>
    THEN LET existing == PriceMatch(existing_pricing, row.ingredient, row.unit)
         IN  IF existing # << >>
             THEN IF Abs(existing[1].price_per_unit - row.price_per_unit)
                        > PriceThreshold
                  THEN <<HistoryEntry(row.ingredient, row.unit,
                                      existing[1].price_per_unit,
                                      row.price_per_unit, timestamp)>>
                  ELSE << >>
             ELSE <<HistoryEntry(row.ingredient, row.unit, 0,
                                 row.price_per_unit, timestamp)>>
    ELSE << >>

\* load_price_history: the file's rows, or an empty table when it is absent.
load_price_history == price_history_file

\* load_pricing: the file's rows.  (The names and prices of the model are
\* read back from CSV as they were written.)
load_pricing == pricing_file

\* A variant of save_pricing that writes only the new history rows.
save_pricing_Alt(df, timestamp) ==
    [pricing |-> [i \in 1..Len(df) |->
                    [df[i] EXCEPT !.last_updated = timestamp]],
     history |-> Flatten([i \in 1..Len(df) |->
                            RowHistory(df[i], pricing_file, timestamp)])]

\* save_pricing(df) at time timestamp: the two files it writes.
save_pricing(df, timestamp) ==
    LET existing_pricing == pricing_file
        price_history    == load_price_history
    IN  [pricing |-> [i \in 1..Len(df) |->
                        [df[i] EXCEPT !.last_updated = timestamp]],
         history |-> price_history \o
                     Flatten([i \in 1..Len(df) |->
                                RowHistory(df[i], existing_pricing, timestamp)])]

----------------------------------------------------------------------------
(* Exact rational numbers [n, d] in lowest terms with d > 0, for the scaled *)
(* quantities and the costs (Python floats in the source).                  *)

RECURSIVE GCD(_, _)
GCD(a, b) == IF b = 0 THEN a ELSE GCD(b, a % b)

Rat(n, d) ==
    LET g == GCD(Abs(n), Abs(d))
        sgn == IF d < 0 THEN -1 ELSE 1
    IN  [n |-> sgn * (n \div g), d |-> sgn * (d \div g)]

RatInt(k) == [n |-> k, d |-> 1]

RatAdd(a, b) == Rat(a.n * b.d + b.n * a.d, a.d * b.d)

RatMul(a, b) == Rat(a.n * b.n, a.d * b.d)

\* a / b for b # 0
RatDiv(a, b) == Rat(a.n * b.d, a.d * b.n)

RatPos(a) == a.n > 0

RECURSIVE RatSum(_)
RatSum(s) == IF s = << >> THEN RatInt(0) ELSE RatAdd(Head(s), RatSum(Tail(s)))

RECURSIVE IntSum(_)
IntSum(s) == IF s = << >> THEN 0 ELSE Head(s) + IntSum(Tail(s))

----------------------------------------------------------------------------
(* The recipe and pantry tables as loaded.                                  *)

\* An empty numeric cell of a CSV file.
Blank == -1

\* A cook_time cell that pandas read as NaN (cook_time cells are sequences
\* of characters).
CookNaN == <<NaN>>

\* The rating of the rows of a CSV file that has no rating column.
NoColumn == "no column"

\* load_data: pandas reads an empty text cell, and the text "nan", as NaN; a
\* missing servings is filled with 2; a missing rating column is added with
\* '' in every row.
load_data(file) ==
    [i \in 1..Len(file) |->
        [file[i] EXCEPT !.category = IF @ = "" THEN NaN ELSE @,
                        !.rating = IF @ = "" THEN NaN
                                   ELSE IF @ = NoColumn THEN "" ELSE @,
                        !.cook_time = IF @ \in {<< >>, <<"n", "a", "n">>}
                                      THEN CookNaN ELSE @,
                        !.servings = IF @ = Blank THEN 2 ELSE @]]

recipes == load_data(recipes_file)

\* load_pantry
pantry_staples == pantry_file

\* recipes["recipe_name"].unique(), in first-seen order
RECURSIVE Unique(_)
Unique(s) ==
    IF s = << >> THEN << >>
    ELSE LET u == Unique(SubSeq(s, 1, Len(s) - 1))
         IN  IF s[Len(s)] \in Range(u) THEN u ELSE Append(u, s[Len(s)])

RecipeNames(table) == Range([i \in 1..Len(table) |-> table[i].recipe_name])

\* recipes[recipes["recipe_name"] == recipe]
RecipeRows(table, recipe) == SelectSeq(table, LAMBDA r : r.recipe_name = recipe)

----------------------------------------------------------------------------
(* The weekly planner tab: servings, scaling, grouping, pantry, prices.     *)

\* int(recipe_data.get('servings', 2)) of the recipe's first row
DefaultServings(table, recipe) == RecipeRows(table, recipe)[1].servings

\* The servings loop over the selected recipes.  acc holds recipe_servings,
\* servings_multipliers, the recipes whose number_input was drawn, and the
\* exception that ended the script run, if any.  st.number_input raises when
\* its value is outside [min_value, max_value] = [1, 20]; servings /
\* default_servings raises ZeroDivisionError when the stored servings is 0.
\* The error names the source line that raised it.
RECURSIVE ServingsLoop(_, _, _)
ServingsLoop(table, selected, acc) ==
    IF selected = << >> \/ acc.error # "none" THEN acc
    ELSE LET recipe == Head(selected)
             default_servings == DefaultServings(table, recipe)
             value == IF recipe \in DOMAIN acc.servings
                      THEN acc.servings[recipe] ELSE default_servings
         IN  IF value < 1 \/ value > 20
             THEN [acc EXCEPT !.error = "StreamlitAPIException"]
             ELSE LET drawn == [acc EXCEPT
                                  !.servings = (recipe :> value) @@ @,
                                  !.widgets = @ \cup {recipe}]
                  IN  IF default_servings = 0
                      THEN [drawn EXCEPT !.error = "ZeroDivisionError, line 490"]
                      ELSE ServingsLoop(table, Tail(selected),
                             [drawn EXCEPT !.multipliers =
                                (recipe :> Rat(value, default_servings)) @@ @])

\* A variant of ScaledQuantity that scales every line by the multiplier of
\* the recipe first in name order.
ScaledQuantityAlt(row, multipliers) ==
    RatMul(RatInt(row.quantity),
           multipliers[CHOOSE r \in DOMAIN multipliers :
                         \A q \in DOMAIN multipliers : ~StrLess(q, r)])

\* selected_data.loc[selected_data["recipe_name"] == recipe, "quantity"] *= multiplier
ScaledQuantity(row, multipliers) ==
    RatMul(RatInt(row.quantity), multipliers[row.recipe_name])

\* recipes[recipes["recipe_name"].isin(selected_recipes)].copy(), scaled
SelectedData(table, selected, multipliers) ==
    LET rows == SelectSeq(table, LAMBDA r : r.recipe_name \in Range(selected))
    IN  [i \in 1..Len(rows) |->
           [rows[i] EXCEPT !.quantity = ScaledQuantity(rows[i], multipliers)]]

\* The elements of the set S as a sequence in increasing order of the
\* integer keys key[t] (key is one-to-one on S).
SortedSeqOfSet(S, key) ==
    [p \in 1..Cardinality(S) |->
        CHOOSE t \in S : Cardinality({u \in S : key[u] < key[t]}) = p - 1]

StrBase == Len(StrOrder) + 1

\* groupby(["ingredient", "unit", "category"]): pandas drops the rows with a
\* NaN key and orders the groups by the key.
GroupKeyOf(r) == <<r.ingredient, r.unit, r.category>>

GroupKeys(data) ==
    {GroupKeyOf(r) : r \in {x \in Range(data) :
        x.ingredient # NaN /\ x.unit # NaN /\ x.category # NaN}}

GroupOrder(k) ==
    (StrRank(k[1]) * StrBase + StrRank(k[2])) * StrBase + StrRank(k[3])

\* .agg({"quantity": "sum", "recipe_name": lambda x: ", ".join(sorted(set(x)))})
\* (the joined string is kept as the sequence of names it joins)
UsedInRecipes(rows) ==
    SortedSeqOfSet(RecipeNames(rows), [n \in RecipeNames(rows) |-> StrRank(n)])

GroupLine(data, k) ==
    LET rows == SelectSeq(data, LAMBDA r : GroupKeyOf(r) = k)
    IN  [ingredient |-> k[1], unit |-> k[2], category |-> k[3],
         quantity |-> RatSum([i \in 1..Len(rows) |-> rows[i].quantity]),
         used_in_recipes |-> UsedInRecipes(rows)]

\* A variant of GroupedList that leaves the groups in the order of groupby.
GroupedListAlt(data) ==
    LET keys == SortedSeqOfSet(GroupKeys(data),
                               [k \in GroupKeys(data) |-> GroupOrder(k)])
    IN  [i \in 1..Len(keys) |-> GroupLine(data, keys[i])]

\* The shopping list of lines 497-506: grouped, then
\* sort_values(by=["category", "ingredient"]) (a stable sort).
GroupedList(data) ==
    LET keys   == SortedSeqOfSet(GroupKeys(data),
                                 [k \in GroupKeys(data) |-> GroupOrder(k)])
        groups == [i \in 1..Len(keys) |-> GroupLine(data, keys[i])]
    IN  SortByKey(groups,
                  [i \in 1..Len(groups) |->
                     StrRank(groups[i].category) * StrBase
                       + StrRank(groups[i].ingredient)])

\* A variant of ExcludePantry that compares the names as spelled.
ExcludePantryAlt(list, pantry) ==
    IF pantry # << >>
    THEN LET pantry_list == {pantry[i].ingredient : i \in 1..Len(pantry)}
         IN  SelectSeq(list, LAMBDA l : l.ingredient \notin pantry_list)
    ELSE list

\* Exclude pantry staples (lines 508-511).
ExcludePantry(list, pantry) ==
    IF pantry # << >>
    THEN LET pantry_list == {Lower(pantry[i].ingredient) : i \in 1..Len(pantry)}
         IN  SelectSeq(list, LAMBDA l : Lower(l.ingredient) \notin pantry_list)
    ELSE list

\* A variant of LookupPrice that compares the spellings as they are.
LookupPriceAlt(pricing, ingredient, unit) ==
    LET price_match == PriceMatchAlt(pricing, ingredient, unit)
    IN  IF price_match # << >> THEN price_match[1].price_per_unit ELSE 0

\* The price_per_unit lookup of lines 518-527.
LookupPrice(pricing, ingredient, unit) ==
    LET price_match == PriceMatch(pricing, ingredient, unit)
    IN  IF price_match # << >> THEN price_match[1].price_per_unit ELSE 0

\* A variant of AddPricing whose item_cost leaves out the quantity.
AddPricingAlt(list, pricing) ==
    [i \in 1..Len(list) |->
        LET price_per_unit == LookupPrice(pricing, list[i].ingredient, list[i].unit)
        IN  [category |-> list[i].category, ingredient |-> list[i].ingredient,
             quantity |-> list[i].quantity, unit |-> list[i].unit,
             price_per_unit |-> price_per_unit,
             item_cost |-> RatInt(price_per_unit),
             used_in_recipes |-> list[i].used_in_recipes]]

\* "Add pricing to shopping list" (lines 517-531)
AddPricing(list, pricing) ==
    [i \in 1..Len(list) |->
        LET price_per_unit == LookupPrice(pricing, list[i].ingredient, list[i].unit)
        IN  [category |-> list[i].category, ingredient |-> list[i].ingredient,
             quantity |-> list[i].quantity, unit |-> list[i].unit,
             price_per_unit |-> price_per_unit,
             item_cost |-> RatMul(list[i].quantity, RatInt(price_per_unit)),
             used_in_recipes |-> list[i].used_in_recipes]]

\* recipe_costs[recipe]: quantity x price over the recipe's rows that have a
\* price (lines 543-556)
RecipeCost(data, pricing, recipe) ==
    LET rows == RecipeRows(data, recipe)
    IN  RatSum([i \in 1..Len(rows) |->
                  IF PriceMatch(pricing, rows[i].ingredient, rows[i].unit) # << >>
                  THEN RatMul(rows[i].quantity,
                              RatInt(PriceMatch(pricing, rows[i].ingredient,
                                                rows[i].unit)[1].price_per_unit))
                  ELSE RatInt(0)])

\* st.session_state.recipe_servings.get(r, 2)
ServingsGet(servings, r) == IF r \in DOMAIN servings THEN servings[r] ELSE 2

\* A variant of TotalServings that counts the first selected recipe only.
TotalServingsAlt(servings, selected) == ServingsGet(servings, Head(selected))

\* sum(st.session_state.recipe_servings.get(r, 2) for r in selected_recipes)
TotalServings(servings, selected) ==
    IntSum([i \in 1..Len(selected) |-> ServingsGet(servings, selected[i])])

\* What the planner tab holds when no shopping list was computed.
NoPlanner ==
    [shown |-> FALSE, error |-> "none", widgets |-> {},
     selected_recipes |-> << >>, servings_multipliers |-> << >>,
     selected_data |-> << >>, grouped |-> << >>, shopping_list |-> << >>,
     shopping_list_cost |-> RatInt(0), items_without_price |-> << >>,
     meal_cost |-> RatInt(0), cost_per_serving |-> << >>,
     recipe_cost_per_serving |-> << >>]

\* Lines 497-587, once the servings loop has ended without an exception.
ShoppingList(table, pantry, pricing, selected, loop) ==
    LET selected_data == SelectedData(table, selected, loop.multipliers)
        grouped       == GroupedList(selected_data)
        shopping_list == AddPricing(ExcludePantry(grouped, pantry), pricing)
        recipe_costs  == [r \in Range(selected) |->
                            RecipeCost(selected_data, pricing, r)]
        meal_cost     == RatSum([i \in 1..Len(selected) |->
                                   recipe_costs[selected[i]]])
        total         == TotalServings(loop.servings, selected)
        per_recipe    == [r \in Range(selected) |->
                            IF ServingsGet(loop.servings, r) > 0
                            THEN RatDiv(recipe_costs[r],
                                        RatInt(ServingsGet(loop.servings, r)))
                            ELSE RatInt(0)]
        computed ==
            [NoPlanner EXCEPT
               !.widgets = loop.widgets,
               !.selected_recipes = selected,
               !.servings_multipliers = loop.multipliers,
               !.selected_data = selected_data,
               !.grouped = grouped,
               !.shopping_list = shopping_list,
               !.shopping_list_cost =
                   RatSum([i \in 1..Len(shopping_list) |->
                             shopping_list[i].item_cost]),
               !.items_without_price =
                   SelectSeq(shopping_list, LAMBDA l : l.price_per_unit = 0),
               !.meal_cost = meal_cost]
    IN  IF RatPos(meal_cost) /\ total = 0
        THEN [computed EXCEPT !.error = "ZeroDivisionError, line 570"]
        ELSE [computed EXCEPT
                !.shown = TRUE,
                !.cost_per_serving =
                    IF RatPos(meal_cost)
                    THEN <<RatDiv(meal_cost, RatInt(total))>> ELSE << >>,
                !.recipe_cost_per_serving =
                    IF \E r \in Range(selected) : RatPos(recipe_costs[r])
                    THEN per_recipe ELSE << >>]

----------------------------------------------------------------------------
(* The dashboard's recommendations: get_recipe_recommendations.             *)

\* load_history: week_start is parsed to a date (here a day number).
load_history == meal_history_file

meal_history == load_history

\* str(x) of a cook_time cell: str(float("nan")) is "nan".
Str(cell) == IF cell = CookNaN THEN <<"n", "a", "n">> ELSE cell

\* needle in haystack, for strings as sequences of characters
Contains(haystack, needle) ==
    \E i \in 1..(Len(haystack) - Len(needle) + 1) :
        SubSeq(haystack, i, i + Len(needle) - 1) = needle

\* A Python float: a number or nan.  Arithmetic with nan gives nan and every
\* comparison with nan is False.
Num(v) == [nan |-> FALSE, value |-> v]

FloatNaN == [nan |-> TRUE, value |-> 0]

Plus(a, b) == IF a.nan \/ b.nan THEN FloatNaN ELSE Num(a.value + b.value)

IsLT(a, b) == ~a.nan /\ ~b.nan /\ a.value < b.value

IsGE(a, b) == ~a.nan /\ ~b.nan /\ a.value >= b.value

\* The rating cells of the model for which float(rating) raises nothing.
Parseable(rating) == rating \in {"0", "1", "2", "3", "4", "5", "7", NaN}

\* float(rating)
Float(rating) ==
    CASE rating = "0" -> Num(0)
      [] rating = "1" -> Num(1)
      [] rating = "2" -> Num(2)
      [] rating = "3" -> Num(3)
      [] rating = "4" -> Num(4)
      [] rating = "5" -> Num(5)
      [] rating = "7" -> Num(7)
      [] rating = NaN -> FloatNaN

\* One reason of a recommendation: its kind and the number its text shows.
Reason(kind, n) == [kind |-> kind, n |-> n]

\* What one part of the scorer adds to the score and to the reasons.
Part(score, reasons) == [score |-> score, reasons |-> reasons]

\* "Rating boost" (lines 145-154).  NaN is truthy and float(NaN) is nan; an
\* empty string is skipped; a rating that float() rejects is passed over.
RatingScore(rating) ==
    IF rating # "" /\ Parseable(rating)
    THEN LET rating_val == Float(rating)
         IN  Part(IF rating_val.nan THEN FloatNaN ELSE Num(rating_val.value * 10),
                  IF IsGE(rating_val, Num(4))
                  THEN <<Reason("rated", rating_val.value)>> ELSE << >>)
    ELSE Part(Num(0), << >>)

\* A variant of LastCooked that takes the week_start of the last history row.
LastCookedAlt(rows) == rows[Len(rows)].week_start

\* history_df[history_df['recipe_name'] == recipe]['week_start'].max()
LastCooked(rows) ==
    CHOOSE d \in {rows[i].week_start : i \in 1..Len(rows)} :
        \A i \in 1..Len(rows) : rows[i].week_start <= d

\* A variant of HistoryScore for which only an empty history table means
\* "never tried".
HistoryScoreAlt(history_df, recipe, today) ==
    IF history_df # << >>
    THEN LET rows == SelectSeq(history_df, LAMBDA h : h.recipe_name = recipe)
             times_cooked == Len(rows)
         IN  IF times_cooked > 0
             THEN LET days_since == today - LastCooked(rows)
                  IN  Part(Num((IF days_since > 60 THEN 15
                                ELSE IF days_since < 14 THEN -20 ELSE 0)
                               + (IF times_cooked >= 3 THEN 5 ELSE 0)),
                           (IF days_since > 60
                            THEN <<Reason("not cooked in", days_since)>> ELSE << >>)
                           \o (IF times_cooked >= 3
                               THEN <<Reason("favorite", times_cooked)>> ELSE << >>))
             ELSE Part(Num(0), << >>)
    ELSE Part(Num(10), <<Reason("never tried", 0)>>)

\* "Check cooking history" (lines 156-177) on the day today.
HistoryScore(history_df, recipe, today) ==
    IF history_df # << >>
    THEN LET rows == SelectSeq(history_df, LAMBDA h : h.recipe_name = recipe)
             times_cooked == Len(rows)
         IN  IF times_cooked > 0
             THEN LET last_cooked == LastCooked(rows)
                      days_since == today - last_cooked
                  IN  Part(Num((IF days_since > 60 THEN 15
                                ELSE IF days_since < 14 THEN -20 ELSE 0)
                               + (IF times_cooked >= 3 THEN 5 ELSE 0)),
                           (IF days_since > 60
                            THEN <<Reason("not cooked in", days_since)>> ELSE << >>)
                           \o (IF times_cooked >= 3
                               THEN <<Reason("favorite", times_cooked)>> ELSE << >>))
             ELSE Part(Num(10), <<Reason("never tried", 0)>>)
    ELSE Part(Num(10), <<Reason("never tried", 0)>>)

\* A variant of QuickScore that also counts "25", as the dashboard's quick
\* meals list does.
QuickScoreAlt(cook_time) ==
    LET text == Str(cook_time)
    IN  IF \/ Contains(text, <<"1", "5">>) \/ Contains(text, <<"2", "0">>)
           \/ Contains(text, <<"2", "5">>)
        THEN Part(Num(5), <<Reason("quick meal", 0)>>)
        ELSE Part(Num(0), << >>)

\* "Quick meals boost" (lines 179-183)
QuickScore(cook_time) ==
    LET text == Str(cook_time)
    IN  IF Contains(text, <<"1", "5">>) \/ Contains(text, <<"2", "0">>)
        THEN Part(Num(5), <<Reason("quick meal", 0)>>)
        ELSE Part(Num(0), << >>)

\* The dashboard's "Quick Meals": the first five names of the recipes whose
\* cook_time contains "15", "20" or "25" (lines 277-280; na=False).
quick_names(recipes_df) ==
    LET quick_meals ==
            SelectSeq(recipes_df,
                      LAMBDA r : /\ r.cook_time # CookNaN
                                 /\ \/ Contains(r.cook_time, <<"1", "5">>)
                                    \/ Contains(r.cook_time, <<"2", "0">>)
                                    \/ Contains(r.cook_time, <<"2", "5">>))
        names == Unique([i \in 1..Len(quick_meals) |-> quick_meals[i].recipe_name])
    IN  SubSeq(names, 1, IF Len(names) < 5 THEN Len(names) ELSE 5)

\* The text shown when no reason was gathered.
GoodChoice == <<Reason("Good choice!", 0)>>

\* A variant of RecipeScore that shows "Good choice!" whenever the rating
\* gave no reason.
RecipeScoreAlt(recipes_df, history_df, recipe, today) ==
    LET recipe_data == RecipeRows(recipes_df, recipe)[1]
        rating   == RatingScore(recipe_data.rating)
        history  == HistoryScore(history_df, recipe, today)
        quick    == QuickScore(recipe_data.cook_time)
        reasons  == rating.reasons \o history.reasons \o quick.reasons
    IN  [recipe |-> recipe,
         score |-> Plus(Plus(rating.score, history.score), quick.score),
         reasons |-> IF rating.reasons # << >> THEN reasons ELSE GoodChoice]

\* The body of the loop over recipe_names (lines 140-189): the entry of one
\* recipe, scored on the metadata of its first row.
RecipeScore(recipes_df, history_df, recipe, today) ==
    LET recipe_data == RecipeRows(recipes_df, recipe)[1]
        rating   == RatingScore(recipe_data.rating)
        history  == HistoryScore(history_df, recipe, today)
        quick    == QuickScore(recipe_data.cook_time)
        reasons  == rating.reasons \o history.reasons \o quick.reasons
    IN  [recipe |-> recipe,
         score |-> Plus(Plus(rating.score, history.score), quick.score),
         reasons |-> IF reasons # << >> THEN reasons ELSE GoodChoice]

Reverse(s) == [i \in 1..Len(s) |-> s[Len(s) + 1 - i]]

\* list.sort on the score keys, as CPython sorts a short list: the run at
\* the head of the list is found (and reversed when it descends), then every
\* later entry is placed by binary insertion.  The only comparison is <.
RECURSIVE RunEnd(_, _, _)
RunEnd(s, i, descending) ==
    IF i < Len(s) /\ (IsLT(s[i + 1].score, s[i].score) <=> descending)
    THEN RunEnd(s, i + 1, descending)
    ELSE i

RECURSIVE BinaryPlace(_, _, _, _)
BinaryPlace(s, pivot, l, r) ==
    IF l >= r THEN l
    ELSE LET p == l + ((r - l) \div 2)
         IN  IF IsLT(pivot.score, s[p].score)
             THEN BinaryPlace(s, pivot, l, p)
             ELSE BinaryPlace(s, pivot, p + 1, r)

RECURSIVE BinarySort(_, _)
BinarySort(s, start) ==
    IF start > Len(s) THEN s
    ELSE LET pivot == s[start]
             l     == BinaryPlace(s, pivot, 1, start)
         IN  BinarySort(SubSeq(s, 1, l - 1) \o <<pivot>> \o SubSeq(s, l, start - 1)
                          \o SubSeq(s, start + 1, Len(s)),
                        start + 1)

ListSort(s) ==
    IF Len(s) < 2 THEN s
    ELSE LET descending == IsLT(s[2].score, s[1].score)
             n   == RunEnd(s, 2, descending)
             run == IF descending
                    THEN Reverse(SubSeq(s, 1, n)) \o SubSeq(s, n + 1, Len(s))
                    ELSE s
         IN  BinarySort(run, n + 1)

\* sorted(recommendations, key=score, reverse=True): the list is reversed,
\* sorted and reversed again.
SortedReverse(s) == Reverse(ListSort(Reverse(s)))

\* get_recipe_recommendations(recipes_df, history_df, top_n) on the day today
get_recipe_recommendations(recipes_df, history_df, top_n, today) ==
    LET recipe_names == Unique([i \in 1..Len(recipes_df) |->
                                  recipes_df[i].recipe_name])
        scored == [i \in 1..Len(recipe_names) |->
                     RecipeScore(recipes_df, history_df, recipe_names[i], today)]
        sorted == SortedReverse(scored)
    IN  SubSeq(sorted, 1, IF top_n < Len(sorted) THEN top_n ELSE Len(sorted))

----------------------------------------------------------------------------
(* The script run.                                                          *)

\* One run of the script over the given files and session state, as far as
\* the planner tab (lines 445-592): the session state it leaves and what the
\* tab computed.
Render(file, pantry, pricing, weekly, servings) ==
    LET table    == load_data(file)
        selected == IF weekly # << >>
                    THEN SelectSeq(weekly, LAMBDA r : r \in RecipeNames(table))
                    ELSE weekly
        loop     == ServingsLoop(table, selected,
                       [servings |-> servings, multipliers |-> << >>,
                        widgets |-> {}, error |-> "none"])
    IN  IF selected = << >>
        THEN [weekly_recipes |-> selected, recipe_servings |-> servings,
              planner |-> NoPlanner]
        ELSE [weekly_recipes |-> selected, recipe_servings |-> loop.servings,
              planner |->
                IF loop.error # "none"
                THEN [NoPlanner EXCEPT !.error = loop.error,
                                       !.widgets = loop.widgets,
                                       !.selected_recipes = selected,
                                       !.servings_multipliers = loop.multipliers]
                ELSE ShoppingList(table, pantry, pricing, selected, loop)]

\* The script run that follows an interaction: the files and the session
\* lists are the primed ones.
Rerun(weekly, servings) ==
    LET run == Render(recipes_file', pantry_file', pricing_file', weekly, servings)
    IN  /\ weekly_recipes' = run.weekly_recipes
        /\ recipe_servings' = run.recipe_servings
        /\ planner' = run.planner
        /\ recommendations' =
              get_recipe_recommendations(load_data(recipes_file'),
                                         meal_history_file', 5, now')

----------------------------------------------------------------------------
(* The stored data the behaviours start from.                               *)

\* A line of recipes.csv.
RecipeLine(name, ingredient, quantity, unit, category, servings, rating, cook) ==
    [recipe_name |-> name, ingredient |-> ingredient, quantity |-> quantity,
     unit |-> unit, category |-> category, servings |-> servings,
     rating |-> rating, cook_time |-> cook]

\* A line of an unrated recipe that cooks in "30 min".
RecipeRow(name, ingredient, quantity, unit, category, servings) ==
    RecipeLine(name, ingredient, quantity, unit, category, servings, "",
               <<"3", "0", " ", "m", "i", "n">>)

\* Two recipes, "Pasta" (1 serving) with two lines and "Salad" (an empty
\* servings cell) with one.  The second Pasta line has the first line's key,
\* the same in another case, the same in another unit, or another
\* ingredient, in the same category or (an ingredient later in the alphabet)
\* in an earlier one; the first line's optional category may be empty.
RecipeTables ==
    {<<RecipeRow("Pasta", "Tomato", 200, "g", category1, 1),
       RecipeRow("Pasta", key2[1], 100, key2[2], key2[3], 1),
       RecipeRow("Salad", "Tomato", 50, "g", "Veg", Blank)>> :
        category1 \in {"Veg", ""},
        key2 \in {<<"Tomato", "g", "Veg">>, <<"tomato", "g", "Veg">>,
                  <<"Tomato", "grams", "Veg">>, <<"Salt", "g", "Veg">>,
                  <<"Yogurt", "g", "Dairy">>}}

PriceRow(ingredient, unit, price_per_unit, last_updated) ==
    [ingredient |-> ingredient, unit |-> unit,
     price_per_unit |-> price_per_unit, last_updated |-> last_updated]

\* Price files: none, and one that prices tomatoes per "G" and salt per "g".
PricingTables ==
    {<< >>, <<PriceRow("tomato", "G", 2000, 0), PriceRow("Salt", "g", 3000, 0)>>}

\* The staples a user adds to the pantry.
PantryNames == {"TOMATO", "Pepper"}

\* "Save Recipe" was not clicked in the last interaction.  After a click:
\* the input method and the form's name and text, and the errors reported.
NoSaveRecipe ==
    [clicked |-> "none", new_recipe_name |-> "", new_ingredients |-> << >>,
     errors |-> << >>]

\* The browser sessions that may be open at the same time.
Sessions == {1, 2}

\* A session that no browser has opened.
NotOpened == [at |-> "new"]

NoRuns == [s \in Sessions |-> NotOpened]

\* The state of a new session after its first script run: nothing is
\* selected, and the dashboard recommends from the stored recipes.
EmptySession ==
    /\ weekly_recipes = << >>
    /\ recipe_servings = << >>
    /\ planner = NoPlanner
    /\ recommendations =
          get_recipe_recommendations(recipes, meal_history, 5, now)
    /\ new_recipe_ingredients = << >>
    /\ add_recipe = NoSaveRecipe
    /\ script_runs = NoRuns

\* A session that starts on stored recipes and prices.
InitPlanner ==
    /\ recipes_file \in RecipeTables
    /\ pantry_file = << >>
    /\ pricing_file \in PricingTables
    /\ price_history_file = << >>
    /\ meal_history_file = << >>
    /\ now = 0
    /\ EmptySession

\* A session that starts without price files.
InitPricing ==
    /\ recipes_file =
         <<RecipeRow("Pasta", "Tomato", 200, "g", "Veg", 2),
           RecipeRow("Pasta", "tomato", 100, "g", "Veg", 2),
           RecipeRow("Salad", "Tomato", 50, "grams", "Veg", Blank)>>
    /\ pantry_file = << >>
    /\ pricing_file = << >>
    /\ price_history_file = << >>
    /\ meal_history_file = << >>
    /\ now = 0
    /\ EmptySession

----------------------------------------------------------------------------
(* The planner's interactions.                                              *)

\* Browse tab, the add/remove toggle of a recipe (lines 431-440).
QuickAddToggle(recipe) ==
    /\ recipe \in RecipeNames(recipes)
    /\ UNCHANGED <<recipes_file, pantry_file, pricing_file,
                   price_history_file, meal_history_file, now,
                   new_recipe_ingredients, add_recipe, script_runs>>
    /\ Rerun(IF recipe \in Range(weekly_recipes)
             THEN SelectSeq(weekly_recipes, LAMBDA r : r # recipe)
             ELSE Append(weekly_recipes, recipe),
             recipe_servings)

\* Planner tab, a new value typed into a recipe's servings input
\* (lines 482-489).
SetServings(recipe, servings) ==
    /\ recipe \in planner.widgets
    /\ servings \in 1..MaxServings
    /\ UNCHANGED <<recipes_file, pantry_file, pricing_file,
                   price_history_file, meal_history_file, now,
                   new_recipe_ingredients, add_recipe, script_runs>>
    /\ Rerun(weekly_recipes, (recipe :> servings) @@ recipe_servings)

\* Pantry tab, "Add to Pantry" (lines 758-766).  The tabs after the planner
\* are drawn only when the planner tab raised nothing.
AddToPantry(new_staple) ==
    /\ planner.error = "none"
    /\ new_staple \in PantryNames
    /\ pantry_file' =
         IF [ingredient |-> new_staple] \in Range(pantry_staples)
         THEN pantry_staples
         ELSE Append(pantry_staples, [ingredient |-> new_staple])
    /\ UNCHANGED <<recipes_file, pricing_file, price_history_file,
                   meal_history_file, now, new_recipe_ingredients, add_recipe,
                   script_runs>>
    /\ Rerun(weekly_recipes, recipe_servings)

\* Pantry tab, the delete button of a staple (lines 785-788).
DeleteFromPantry(idx) ==
    /\ planner.error = "none"
    /\ idx \in 1..Len(pantry_staples)
    /\ pantry_file' = [i \in 1..(Len(pantry_staples) - 1) |->
                         IF i < idx THEN pantry_staples[i]
                         ELSE pantry_staples[i + 1]]
    /\ UNCHANGED <<recipes_file, pricing_file, price_history_file,
                   meal_history_file, now, new_recipe_ingredients, add_recipe,
                   script_runs>>
    /\ Rerun(weekly_recipes, recipe_servings)

\* Edit tab, "Save Ingredient Changes" with "All recipes" shown
\* (lines 1298-1316), after the servings cell of one row was set to 0.
SaveIngredientChanges(idx) ==
    /\ planner.error = "none"
    /\ idx \in 1..Len(recipes)
    /\ LET editable == [recipes EXCEPT ![idx].servings = 0]
       IN  recipes_file' = editable
    /\ UNCHANGED <<pantry_file, pricing_file, price_history_file,
                   meal_history_file, now, new_recipe_ingredients, add_recipe,
                   script_runs>>
    /\ Rerun(weekly_recipes, recipe_servings)

NextPlanner ==
    \/ \E recipe \in {"Pasta", "Salad"} : QuickAddToggle(recipe)
    \/ \E recipe \in {"Pasta", "Salad"}, servings \in 1..MaxServings :
          SetServings(recipe, servings)
    \/ \E new_staple \in PantryNames : AddToPantry(new_staple)
    \/ \E idx \in 1..2 : DeleteFromPantry(idx)
    \/ \E idx \in 1..3 : SaveIngredientChanges(idx)

SpecPlanner == InitPlanner /\ [][NextPlanner]_vars

----------------------------------------------------------------------------
(* The weekly selection: the four ways to change it, and the recipe edit    *)
(* that changes the stored servings.                                        *)

\* The lists without repetition of the elements of the set S.
OrdersOf(S) ==
    {p \in [1..Cardinality(S) -> S] :
        \A i, j \in 1..Cardinality(S) : i # j => p[i] # p[j]}

\* A session that starts on one recipe table and one price table.
InitSelection ==
    /\ recipes_file =
         <<RecipeRow("Pasta", "Tomato", 200, "g", "Veg", 1),
           RecipeRow("Pasta", "Salt", 100, "g", "Veg", 1),
           RecipeRow("Salad", "Tomato", 50, "g", "Veg", Blank)>>
    /\ pantry_file = << >>
    /\ pricing_file =
         <<PriceRow("tomato", "G", 2000, 0), PriceRow("Salt", "g", 3000, 0)>>
    /\ price_history_file = << >>
    /\ meal_history_file = << >>
    /\ now = 0
    /\ EmptySession

\* A variant of AddToPlan that appends without looking at the list.
AddToPlanAlt(recipe) ==
    /\ \E i \in 1..Len(recommendations) : recommendations[i].recipe = recipe
    /\ UNCHANGED <<recipes_file, pantry_file, pricing_file,
                   price_history_file, meal_history_file, now,
                   new_recipe_ingredients, add_recipe, script_runs>>
    /\ Rerun(Append(weekly_recipes, recipe), recipe_servings)

\* Dashboard, "Add to Plan" of a recommended recipe (lines 254-258).
AddToPlan(recipe) ==
    /\ \E i \in 1..Len(recommendations) : recommendations[i].recipe = recipe
    /\ UNCHANGED <<recipes_file, pantry_file, pricing_file,
                   price_history_file, meal_history_file, now,
                   new_recipe_ingredients, add_recipe, script_runs>>
    /\ Rerun(IF recipe \notin Range(weekly_recipes)
             THEN Append(weekly_recipes, recipe)
             ELSE weekly_recipes,
             recipe_servings)

\* Planner tab, the multiselect (lines 451-465): the user adds a recipe to
\* the selection it shows or removes one from it.  The widget has no key:
\* when the session's list is no longer the default the widget was drawn
\* with, the run draws a new widget, which returns the session's list.
Multiselect(recipe) ==
    LET default == IF weekly_recipes # << >>
                   THEN SelectSeq(weekly_recipes,
                                  LAMBDA r : r \in RecipeNames(recipes))
                   ELSE weekly_recipes
        selected_recipes ==
            IF default # planner.selected_recipes THEN default
            ELSE IF recipe \in Range(default)
                 THEN SelectSeq(default, LAMBDA r : r # recipe)
                 ELSE Append(default, recipe)
    IN  /\ recipe \in RecipeNames(recipes)
        /\ UNCHANGED <<recipes_file, pantry_file, pricing_file,
                       price_history_file, meal_history_file, now,
                       new_recipe_ingredients, add_recipe, script_runs>>
        /\ Rerun(selected_recipes, recipe_servings)

\* The recipes planned on the calendar's days, in the order of the days.
PlannedMeals ==
    UNION {[1..n -> {"Pasta", "Salad"}] : n \in 0..MaxPlanned}

\* Calendar tab, "Add All to Weekly Planner" (lines 731-735).  The run
\* draws the planner tab first; the button then replaces the session's list
\* by list(set(...)), whose order is any, and starts no new run.
AddAllToWeeklyPlanner(planned_recipes) ==
    LET run == Render(recipes_file, pantry_file, pricing_file, weekly_recipes,
                      recipe_servings)
    IN  /\ planner.error = "none"
        /\ planned_recipes \in PlannedMeals
        /\ Range(planned_recipes) \subseteq RecipeNames(recipes)
        /\ UNCHANGED <<recipes_file, pantry_file, pricing_file,
                       price_history_file, meal_history_file, now,
                       recommendations, new_recipe_ingredients, add_recipe,
                       script_runs>>
        /\ recipe_servings' = run.recipe_servings
        /\ planner' = run.planner
        /\ IF run.planner.error = "none"
           THEN weekly_recipes' \in
                    OrdersOf(Range(run.weekly_recipes)
                                   \cup Range(planned_recipes))
           ELSE weekly_recipes' = run.weekly_recipes

\* int(float(rating)) as the index of the form's rating selectbox; 0 for a
\* missing or unparseable rating.
RatingIndex(rating) ==
    IF rating = NaN \/ rating = "" \/ ~Parseable(rating) THEN 0
    ELSE Float(rating).value

\* The options of the rating selectbox.
RatingOptions == <<"", "1", "2", "3", "4", "5">>

\* Edit tab, "Save Changes" of the metadata form (lines 1222-1269) of a
\* recipe.  The form is drawn when its servings input and its rating
\* selectbox accept the stored values; a text input shows str() of the value
\* it is given.
SaveChanges(recipe_to_edit, new_name, new_cook, new_rating_edit, new_servings) ==
    LET recipe_data == RecipeRows(recipes, recipe_to_edit)[1]
        renamed == [i \in 1..Len(recipes) |->
                      IF recipes[i].recipe_name = recipe_to_edit
                      THEN [recipes[i] EXCEPT !.recipe_name = new_name]
                      ELSE recipes[i]]
        updated == [i \in 1..Len(renamed) |->
                      IF renamed[i].recipe_name = new_name
                      THEN [renamed[i] EXCEPT !.cook_time = new_cook,
                                              !.rating = new_rating_edit,
                                              !.servings = new_servings]
                      ELSE renamed[i]]
    IN  /\ planner.error = "none"
        /\ recipe_to_edit \in RecipeNames(recipes)
        /\ recipe_data.servings \in 1..20
        /\ RatingIndex(recipe_data.rating) + 1 \in 1..Len(RatingOptions)
        /\ new_servings \in 1..20
        /\ recipes_file' = updated
        /\ UNCHANGED <<pantry_file, pricing_file, price_history_file,
                       meal_history_file, now, new_recipe_ingredients,
                       add_recipe, script_runs>>
        /\ Rerun(weekly_recipes, recipe_servings)

\* "Save Changes" with only the servings input changed: the other inputs
\* keep the values the form showed.
SaveServings(recipe_to_edit, new_servings) ==
    /\ recipe_to_edit \in RecipeNames(recipes)
    /\ LET recipe_data == RecipeRows(recipes, recipe_to_edit)[1]
       IN  /\ RatingIndex(recipe_data.rating) + 1 \in 1..Len(RatingOptions)
           /\ SaveChanges(recipe_to_edit, recipe_to_edit,
                          Str(recipe_data.cook_time),
                          RatingOptions[RatingIndex(recipe_data.rating) + 1],
                          new_servings)

NextSelection ==
    \/ \E recipe \in {"Pasta", "Salad"} : AddToPlan(recipe)
    \/ \E recipe \in {"Pasta", "Salad"} : QuickAddToggle(recipe)
    \/ \E recipe \in {"Pasta", "Salad"} : Multiselect(recipe)
    \/ \E planned_recipes \in PlannedMeals : AddAllToWeeklyPlanner(planned_recipes)
    \/ \E recipe \in {"Pasta", "Salad"}, servings \in 1..MaxServings :
          SetServings(recipe, servings)
    \/ \E recipe \in {"Pasta", "Salad"}, servings \in 1..MaxServings :
          SaveServings(recipe, servings)

SpecSelection == InitSelection /\ [][NextSelection]_vars

----------------------------------------------------------------------------
(* The recommendations over stored ratings, cook times and meal history.    *)

\* The rating cells of recipes.csv: empty, numbers in and out of 1..5, and
\* text that is no number; NoColumn stands for a file without the column.
Ratings == {"", "0", "3", "4", "5", "7", "abc", NoColumn}

\* The cook_time cells: empty, "15 min", "20", "25 min", "120" and "45 min".
CookTimes ==
    {<< >>, <<"1", "5", " ", "m", "i", "n">>, <<"2", "0">>,
     <<"2", "5", " ", "m", "i", "n">>, <<"1", "2", "0">>,
     <<"4", "5", " ", "m", "i", "n">>}

\* "Pasta" with a rating and a cook time, and "Salad", rated 5 and cooked in
\* "20 min" (without a rating when the file has no rating column).
ScorerTables ==
    {<<RecipeLine("Pasta", "Tomato", 200, "g", "Veg", 2, rating, cook_time),
       RecipeLine("Salad", "Tomato", 50, "g", "Veg", 2,
                  IF rating = NoColumn THEN NoColumn ELSE "5",
                  <<"2", "0", " ", "m", "i", "n">>)>> :
        rating \in Ratings, cook_time \in CookTimes}

HistoryRow(week_start, recipe_name) ==
    [week_start |-> week_start, recipe_name |-> recipe_name]

\* The days before Today on which Pasta was last cooked: around the 60 and
\* the 14 day marks.
DaysAgo == {70, 61, 60, 14, 13, 5}

\* Meal histories: none; Salad only; Pasta cooked once; Pasta cooked three
\* times, the latest in the middle row.
HistoryTables ==
    {<< >>, <<HistoryRow(Today - 10, "Salad")>>}
    \cup {<<HistoryRow(Today - d, "Pasta")>> : d \in DaysAgo}
    \cup {<<HistoryRow(Today - 80, "Pasta"), HistoryRow(Today - d, "Pasta"),
            HistoryRow(Today - 90, "Pasta")>> : d \in {70, 30, 5}}

\* A session that starts on stored recipes and meal history.
InitScorer ==
    /\ recipes_file \in ScorerTables
    /\ pantry_file = << >>
    /\ pricing_file = << >>
    /\ price_history_file = << >>
    /\ meal_history_file \in HistoryTables
    /\ now = Today
    /\ EmptySession

\* Browse tab, "Save Rating" of a recipe (lines 405-423).  The tab draws a
\* rating selectbox for every recipe, at the index of its stored rating.
SaveRating(recipe, new_rating) ==
    /\ recipe \in RecipeNames(recipes)
    /\ \A i \in 1..Len(recipes) :
          RatingIndex(recipes[i].rating) + 1 \in 1..Len(RatingOptions)
    /\ new_rating \in Range(RatingOptions)
    /\ recipes_file' = [i \in 1..Len(recipes) |->
                          IF recipes[i].recipe_name = recipe
                          THEN [recipes[i] EXCEPT !.rating = new_rating]
                          ELSE recipes[i]]
    /\ UNCHANGED <<pantry_file, pricing_file, price_history_file,
                   meal_history_file, now, new_recipe_ingredients, add_recipe,
                   script_runs>>
    /\ Rerun(weekly_recipes, recipe_servings)

NextScorer ==
    \E recipe \in {"Pasta", "Salad"}, new_rating \in Range(RatingOptions) :
        SaveRating(recipe, new_rating)

SpecScorer == InitScorer /\ [][NextScorer]_vars

----------------------------------------------------------------------------
(* The ranking of the recommendations: sessions on tables of up to          *)
(* MaxRecipes one-line recipes, more than the five the dashboard shows.     *)

RankNames == <<"Pasta", "Salad", "Soup", "Curry", "Stew", "Pie", "Rice", "Dal">>

\* The rating cells of the ranked tables: none, 3 and 5.
RankRatings == {"", "3", "5"}

\* recipes.csv with k recipes of one line each, never cooked.
RankTables ==
    UNION {{[i \in 1..k |->
               RecipeLine(RankNames[i], "Tomato", 100, "g", "Veg", 2,
                          ratings[i], <<"3", "0", " ", "m", "i", "n">>)] :
              ratings \in [1..k -> RankRatings]} : k \in 1..MaxRecipes}

InitRanking ==
    /\ recipes_file \in RankTables
    /\ pantry_file = << >>
    /\ pricing_file = << >>
    /\ price_history_file = << >>
    /\ meal_history_file = << >>
    /\ now = Today
    /\ EmptySession

NextRanking ==
    \E recipe \in Range(RankNames), new_rating \in RankRatings :
        SaveRating(recipe, new_rating)

SpecRanking == InitRanking /\ [][NextRanking]_vars

----------------------------------------------------------------------------
(* Edit tab, "Add New Recipe" (lines 1017-1212).  Text the user types is a  *)
(* sequence of characters; the ingredient, unit and category of a parsed    *)
(* line are stored as the model's strings.                                  *)

\* The largest number of rows of recipes.csv.
MaxRows == 3

\* The largest number of lines of the ingredients text area, and of entries
\* of the ingredient list of the table form.
MaxLines == 2

\* The characters of the words a typed line can hold.
Spelling ==
    ("" :> << >>) @@
    ("Rice" :> <<"R", "i", "c", "e">>) @@
    ("Oil" :> <<"O", "i", "l">>) @@
    ("Egg" :> <<"E", "g", "g">>) @@
    ("Ham" :> <<"H", "a", "m">>) @@
    ("Salt" :> <<"S", "a", "l", "t">>) @@
    ("Veg" :> <<"V", "e", "g">>) @@
    ("g" :> <<"g">>) @@
    ("tbsp" :> <<"t", "b", "s", "p">>) @@
    ("item" :> <<"i", "t", "e", "m">>)

\* The model's string of a typed word.
Word(text) ==
    IF \E w \in DOMAIN Spelling : Spelling[w] = text
    THEN CHOOSE w \in DOMAIN Spelling : Spelling[w] = text
    ELSE "?"

\* str.strip(): the blanks and line ends at both ends are dropped.
RECURSIVE Strip(_)
Strip(text) ==
    IF text # << >> /\ Head(text) \in {" ", "\n"} THEN Strip(Tail(text))
    ELSE IF text # << >> /\ text[Len(text)] \in {" ", "\n"}
         THEN Strip(SubSeq(text, 1, Len(text) - 1))
         ELSE text

\* str.split(sep) with a separator of one character.
RECURSIVE Split(_, _)
Split(text, sep) ==
    IF \E i \in 1..Len(text) : text[i] = sep
    THEN LET i == CHOOSE j \in 1..Len(text) :
                     text[j] = sep /\ \A m \in 1..(j - 1) : text[m] # sep
         IN  <<SubSeq(text, 1, i - 1)>> \o Split(SubSeq(text, i + 1, Len(text)), sep)
    ELSE <<text>>

Digits == <<"0", "1", "2", "3", "4", "5", "6", "7", "8", "9">>

IsDigit(c) == \E d \in 1..10 : Digits[d] = c

RECURSIVE DigitsValue(_)
DigitsValue(text) ==
    IF text = << >> THEN 0
    ELSE 10 * DigitsValue(SubSeq(text, 1, Len(text) - 1))
         + (CHOOSE d \in 1..10 : Digits[d] = text[Len(text)]) - 1

\* float(qty) of a stripped text, for whole numbers with or without a sign
\* and for "nan" (which float accepts: the quantity is then nan, an empty
\* cell of recipes.csv); any other text of the model raises ValueError.
FloatOfText(text) ==
    LET digits == IF text # << >> /\ Head(text) \in {"-", "+"}
                  THEN Tail(text) ELSE text
    IN  IF digits # << >> /\ \A i \in 1..Len(digits) : IsDigit(digits[i])
        THEN [ok |-> TRUE,
              value |-> IF Head(text) = "-" THEN 0 - DigitsValue(digits)
                        ELSE DigitsValue(digits)]
        ELSE IF text = <<"n", "a", "n">>
             THEN [ok |-> TRUE, value |-> Blank]
             ELSE [ok |-> FALSE, value |-> 0]

\* The text-format loop (lines 1162-1194) over the lines of the text area:
\* the rows and the errors it gathers.
RECURSIVE ParseLines(_, _, _)
ParseLines(lines, name, meta) ==
    IF lines = << >> THEN [new_rows |-> << >>, errors |-> << >>]
    ELSE LET line  == Head(lines)
             rest  == ParseLines(Tail(lines), name, meta)
             parts == [i \in 1..Len(Split(line, ",")) |->
                         Strip(Split(line, ",")[i])]
             qty   == FloatOfText(parts[2])
         IN  IF Strip(line) = << >> THEN rest
             ELSE IF Len(parts) \notin {3, 4}
                  THEN [rest EXCEPT !.errors = <<line>> \o @]
                  ELSE IF ~qty.ok
                       THEN [rest EXCEPT !.errors = <<line>> \o @]
                       ELSE [rest EXCEPT !.new_rows =
                               <<RecipeLine(name, Word(parts[1]), qty.value,
                                            Word(parts[3]),
                                            IF Len(parts) = 4
                                            THEN Word(parts[4]) ELSE "",
                                            meta.servings, meta.rating,
                                            meta.cook_time)>> \o @]

\* The texts a user types into the ingredients text area: nothing, one line
\* (valid with four parts, valid with three parts and blanks, a quantity that
\* is no number, one part, five parts, a negative quantity, the quantity nan,
\* a blank line) and several lines (both valid; an error then a valid line;
\* a valid line, a blank line, an error; two errors).
TypedTexts ==
    {<< >>,
     <<"R", "i", "c", "e", ",", "1", "0", "0", ",", "g", ",", "V", "e", "g">>,
     <<"O", "i", "l", ",", " ", "2", ",", " ", "t", "b", "s", "p">>,
     <<"E", "g", "g", ",", "t", "w", "o", ",", "i", "t", "e", "m">>,
     <<"S", "a", "l", "t">>,
     <<"R", "i", "c", "e", ",", "1", ",", "5", ",", "g", ",", "V", "e", "g">>,
     <<"H", "a", "m", ",", "-", "5", ",", "g">>,
     <<"E", "g", "g", ",", "n", "a", "n", ",", "i", "t", "e", "m">>,
     <<" ">>,
     <<"O", "i", "l", ",", " ", "2", ",", " ", "t", "b", "s", "p", "\n", "R", "i", "c", "e", ",", "1", "0", "0", ",", "g", ",", "V", "e", "g">>,
     <<"E", "g", "g", ",", "t", "w", "o", ",", "i", "t", "e", "m", "\n", "R", "i", "c", "e", ",", "1", "0", "0", ",", "g", ",", "V", "e", "g">>,
     <<"R", "i", "c", "e", ",", "1", "0", "0", ",", "g", ",", "V", "e", "g", "\n", " ", "\n", "E", "g", "g", ",", "t", "w", "o", ",", "i", "t", "e", "m">>,
     <<"S", "a", "l", "t", "\n", "R", "i", "c", "e", ",", "1", ",", "5", ",", "g", ",", "V", "e", "g">>}

\* The metadata inputs of the form: servings, rating and cook time.
NewMetadata ==
    [servings : {2}, rating : {"4"},
     cook_time : {<<"1", "5", " ", "m", "i", "n">>}]

\* existing_units (line 1048), the options of the form's unit selectbox
existing_units ==
    IF recipes # << >> THEN {recipes[i].unit : i \in 1..Len(recipes)}
    ELSE {"g", "ml", "tsp", "tbsp", "cup", "item"}

\* The form "add_ingredient_form" (lines 1065-1089): the quantity input does
\* not go below 0, and an entry is added for a name and a quantity above 0.
AddIngredient(ing_name, ing_qty, ing_unit, ing_cat) ==
    /\ planner.error = "none"
    /\ ing_qty >= 0
    /\ ing_unit \in existing_units
    /\ Len(new_recipe_ingredients) < MaxLines
    /\ IF ing_name # "" /\ ing_qty > 0
       THEN /\ new_recipe_ingredients' =
                 Append(new_recipe_ingredients,
                        [ingredient |-> ing_name, quantity |-> ing_qty,
                         unit |-> ing_unit, category |-> ing_cat])
            /\ add_recipe' = NoSaveRecipe
            /\ UNCHANGED <<recipes_file, pantry_file, pricing_file,
                           price_history_file, meal_history_file, now,
                           script_runs>>
            /\ Rerun(weekly_recipes, recipe_servings)
       ELSE \* "Please enter ingredient name and quantity"
            UNCHANGED vars

\* The delete button of an entry of the ingredient list (lines 1098-1100).
RemoveIngredient(idx) ==
    /\ planner.error = "none"
    /\ idx \in 1..Len(new_recipe_ingredients)
    /\ new_recipe_ingredients' =
         SubSeq(new_recipe_ingredients, 1, idx - 1)
         \o SubSeq(new_recipe_ingredients, idx + 1, Len(new_recipe_ingredients))
    /\ add_recipe' = NoSaveRecipe
    /\ UNCHANGED <<recipes_file, pantry_file, pricing_file, price_history_file,
                   meal_history_file, now, script_runs>>
    /\ Rerun(weekly_recipes, recipe_servings)

\* The tail of "Save Recipe" (lines 1196-1212): the errors are reported, and
\* new rows are added below the loaded table, saved, and the list cleared.
SaveNewRows(input_method, new_recipe_name, new_ingredients, new_rows, errors) ==
    /\ add_recipe' = [clicked |-> input_method,
                      new_recipe_name |-> new_recipe_name,
                      new_ingredients |-> new_ingredients, errors |-> errors]
    /\ UNCHANGED <<pantry_file, pricing_file, price_history_file,
                   meal_history_file, now, script_runs>>
    /\ IF new_rows # << >>
       THEN /\ Len(recipes) + Len(new_rows) <= MaxRows
            /\ recipes_file' = recipes \o new_rows
            /\ new_recipe_ingredients' = << >>
            /\ Rerun(weekly_recipes, recipe_servings)
       ELSE UNCHANGED <<recipes_file, new_recipe_ingredients, weekly_recipes,
                        recipe_servings, planner, recommendations>>

\* "Save Recipe" with the table format chosen (lines 1128-1160, 1196-1212).
SaveRecipe(new_recipe_name, meta) ==
    /\ planner.error = "none"
    /\ IF new_recipe_name = "" \/ new_recipe_ingredients = << >>
       THEN \* "Please enter a recipe name", "Please add at least one ingredient"
            SaveNewRows("table", new_recipe_name, << >>, << >>, << >>)
       ELSE SaveNewRows("table", new_recipe_name, << >>,
                        [i \in 1..Len(new_recipe_ingredients) |->
                           RecipeLine(new_recipe_name,
                                      new_recipe_ingredients[i].ingredient,
                                      new_recipe_ingredients[i].quantity,
                                      new_recipe_ingredients[i].unit,
                                      new_recipe_ingredients[i].category,
                                      meta.servings, meta.rating, meta.cook_time)],
                        << >>)

\* "Save Recipe" with the text format chosen (lines 1128-1136, 1161-1212).
SaveRecipeText(new_recipe_name, new_ingredients, meta) ==
    LET parsed == ParseLines(Split(Strip(new_ingredients), "\n"),
                             new_recipe_name, meta)
    IN  /\ planner.error = "none"
        /\ IF new_recipe_name = "" \/ new_ingredients = << >>
           THEN \* "Please enter a recipe name", "Please enter ingredients"
                SaveNewRows("text", new_recipe_name, new_ingredients, << >>, << >>)
           ELSE SaveNewRows("text", new_recipe_name, new_ingredients,
                            parsed.new_rows, parsed.errors)

\* "Clear Form" (lines 1214-1217)
ClearForm ==
    /\ planner.error = "none"
    /\ new_recipe_ingredients' = << >>
    /\ add_recipe' = NoSaveRecipe
    /\ UNCHANGED <<recipes_file, pantry_file, pricing_file, price_history_file,
                   meal_history_file, now, script_runs>>
    /\ Rerun(weekly_recipes, recipe_servings)

\* A session on a stored recipe of one line.
InitAddRecipe ==
    /\ recipes_file = <<RecipeRow("Pasta", "Tomato", 200, "g", "Veg", 2)>>
    /\ pantry_file = << >>
    /\ pricing_file = << >>
    /\ price_history_file = << >>
    /\ meal_history_file = << >>
    /\ now = Today
    /\ EmptySession

NextAddRecipe ==
    \/ \E ing_name \in {"", "Rice"}, ing_qty \in {0, 100},
          ing_unit \in {"g"}, ing_cat \in {""} :
          AddIngredient(ing_name, ing_qty, ing_unit, ing_cat)
    \/ \E idx \in 1..MaxLines : RemoveIngredient(idx)
    \/ \E new_recipe_name \in {"", "Soup"}, meta \in NewMetadata :
          SaveRecipe(new_recipe_name, meta)
    \/ \E new_recipe_name \in {"", "Soup"}, new_ingredients \in TypedTexts,
          meta \in NewMetadata :
          SaveRecipeText(new_recipe_name, new_ingredients, meta)
    \/ ClearForm

SpecAddRecipe == InitAddRecipe /\ [][NextAddRecipe]_vars

----------------------------------------------------------------------------
(* The edit tab's recipe form and ingredient editor.                        *)

\* The form is drawn for a stored recipe whose servings and rating the
\* number input and the selectbox accept (lines 1224-1253).
FormDrawn(recipe_to_edit) ==
    /\ planner.error = "none"
    /\ recipe_to_edit \in RecipeNames(recipes)
    /\ LET recipe_data == RecipeRows(recipes, recipe_to_edit)[1]
       IN  /\ recipe_data.servings \in 1..20
           /\ RatingIndex(recipe_data.rating) + 1 \in 1..Len(RatingOptions)

\* "Delete Recipe" (lines 1271-1275).
DeleteRecipe(recipe_to_edit) ==
    /\ FormDrawn(recipe_to_edit)
    /\ recipes_file' =
          SelectSeq(recipes, LAMBDA r : r.recipe_name # recipe_to_edit)
    /\ UNCHANGED <<pantry_file, pricing_file, price_history_file,
                   meal_history_file, now, new_recipe_ingredients,
                   add_recipe, script_runs>>
    /\ Rerun(weekly_recipes, recipe_servings)

\* "Duplicate Recipe" (lines 1277-1285): the recipe's lines, under the name
\* with " (Copy)" behind it, below the table.
DuplicateRecipe(recipe_to_edit) ==
    LET recipe_rows == RecipeRows(recipes, recipe_to_edit)
        copies == [i \in 1..Len(recipe_rows) |->
                     [recipe_rows[i] EXCEPT
                        !.recipe_name = recipe_to_edit \o " (Copy)"]]
    IN  /\ FormDrawn(recipe_to_edit)
        /\ Len(recipes) + Len(copies) <= MaxRows
        /\ recipes_file' = recipes \o copies
        /\ UNCHANGED <<pantry_file, pricing_file, price_history_file,
                       meal_history_file, now, new_recipe_ingredients,
                       add_recipe, script_runs>>
        /\ Rerun(weekly_recipes, recipe_servings)

\* The rows of the table the ingredient editor shows under a recipe filter
\* (line 1302), as pairs of index label and row.  A label is the row's place
\* in the table, counted from 1 here.
filtered_recipes(recipe_filter) ==
    LET labels == SelectSeq([i \in 1..Len(recipes) |-> i],
                    LAMBDA i : recipes[i].recipe_name = recipe_filter)
    IN  [k \in 1..Len(labels) |-> [idx |-> labels[k], row |-> recipes[labels[k]]]]

\* What the user does in the editor before saving: nothing, a new quantity
\* in the k-th row shown, the k-th row deleted, or a row added under a label
\* the table does not use.
EditorChanges ==
    {[kind |-> "none"]}
    \cup [kind : {"edit"}, k : 1..2, quantity : {75, 10, 0}]
    \cup [kind : {"delete"}, k : 1..2]
    \cup [kind : {"add"}, ingredient : {"Basil"}, quantity : {5}]

\* The frame st.data_editor returns (line 1303).
Editable(recipe_filter, change) ==
    LET shown == filtered_recipes(recipe_filter)
    IN  CASE change.kind = "none" -> shown
          [] change.kind = "edit" ->
               [shown EXCEPT ![change.k].row.quantity = change.quantity]
          [] change.kind = "delete" ->
               [j \in 1..(Len(shown) - 1) |->
                  IF j < change.k THEN shown[j] ELSE shown[j + 1]]
          [] change.kind = "add" ->
               Append(shown,
                  [idx |-> Len(recipes) + 1,
                   row |-> [recipe_name |-> recipe_filter,
                            ingredient |-> change.ingredient,
                            quantity |-> change.quantity,
                            unit |-> NaN, category |-> NaN, servings |-> Blank,
                            rating |-> NaN, cook_time |-> CookNaN]])

\* recipes_updated after the loop of lines 1311-1312 over the first n rows
\* of the editor's frame: a row replaces the row of its label, and a label
\* the table does not have adds a row below.
RECURSIVE MergeEdited(_, _, _)
MergeEdited(recipes_updated, editable, n) ==
    IF n = 0 THEN recipes_updated
    ELSE LET before == MergeEdited(recipes_updated, editable, n - 1)
             e == editable[n]
         IN  IF e.idx \in 1..Len(before)
             THEN [before EXCEPT ![e.idx] = e.row]
             ELSE Append(before, e.row)

\* "Save Ingredient Changes" with a recipe filter (lines 1306-1313, 1316).
SaveFilteredIngredientChanges(recipe_filter, change) ==
    LET editable == Editable(recipe_filter, change)
    IN  /\ planner.error = "none"
        /\ recipe_filter \in RecipeNames(recipes)
        /\ change.kind \in {"edit", "delete"} =>
              change.k <= Len(filtered_recipes(recipe_filter))
        /\ change.kind = "add" => Len(recipes) < MaxRows
        /\ recipes_file' = MergeEdited(recipes, editable, Len(editable))
        /\ UNCHANGED <<pantry_file, pricing_file, price_history_file,
                       meal_history_file, now, new_recipe_ingredients,
                       add_recipe, script_runs>>
        /\ Rerun(weekly_recipes, recipe_servings)

\* A session that starts on "Pasta", a recipe of two lines with the same
\* metadata.
InitRecipes ==
    /\ recipes_file =
         <<RecipeLine("Pasta", "Tomato", 200, "g", "Veg", 2, "5",
                      <<"2", "0", " ", "m", "i", "n">>),
           RecipeLine("Pasta", "Salt", 1, "tsp", "", 2, "5",
                      <<"2", "0", " ", "m", "i", "n">>)>>
    /\ pantry_file = << >>
    /\ pricing_file = << >>
    /\ price_history_file = << >>
    /\ meal_history_file = << >>
    /\ now = Today
    /\ EmptySession

\* The names the recipe forms are filled with.
TypedNames == {"Pasta", "Soup"}

NextRecipes ==
    \/ \E new_recipe_name \in TypedNames, meta \in NewMetadata :
          SaveRecipeText(new_recipe_name,
             <<"R", "i", "c", "e", ",", "1", "0", "0", ",", "g", ",", "V", "e", "g">>,
             meta)
    \/ \E recipe \in RecipeNames(recipes) : SaveRating(recipe, "3")
    \/ \E recipe_to_edit \in RecipeNames(recipes) :
          \E new_name \in {recipe_to_edit, "Soup"} :
             SaveChanges(recipe_to_edit, new_name,
                         <<"4", "5", " ", "m", "i", "n">>, "4", 4)
    \/ \E recipe_to_edit \in RecipeNames(recipes) : DeleteRecipe(recipe_to_edit)
    \/ \E recipe_to_edit \in TypedNames : DuplicateRecipe(recipe_to_edit)

SpecRecipes == InitRecipes /\ [][NextRecipes]_vars

\* A session that starts on "Pasta" with two lines and "Salad" with one.
InitEditor ==
    /\ recipes_file =
         <<RecipeRow("Pasta", "Tomato", 200, "g", "Veg", 2),
           RecipeRow("Pasta", "Salt", 1, "tsp", "", 2),
           RecipeRow("Salad", "Tomato", 50, "g", "Veg", 2)>>
    /\ pantry_file = << >>
    /\ pricing_file = << >>
    /\ price_history_file = << >>
    /\ meal_history_file = << >>
    /\ now = Today
    /\ EmptySession

\* The ingredient editor under a recipe filter, and the recipe form's delete.
NextEditor ==
    \/ \E recipe_filter \in RecipeNames(recipes), change \in EditorChanges :
          SaveFilteredIngredientChanges(recipe_filter, change)
    \/ \E recipe_to_edit \in RecipeNames(recipes) : DeleteRecipe(recipe_to_edit)

SpecEditor == InitEditor /\ [][NextEditor]_vars

----------------------------------------------------------------------------
(* The meal history: saving the week's meals, and the recipe edits that     *)
(* rename or delete a recipe the history names.                             *)

\* The largest number of entries of meal_history.csv.
MaxHistory == 3

\* The dates the "Week starting" input is set to.
WeekDates == {Today - 7, Today}

\* A variant of the save below that writes the week's entries alone.
SaveToHistoryAlt(week_date) ==
    LET selected_recipes == planner.selected_recipes
        new_history == [i \in 1..Len(selected_recipes) |->
                          HistoryRow(week_date, selected_recipes[i])]
    IN  /\ planner.shown
        /\ Len(meal_history) + Len(new_history) <= MaxHistory
        /\ meal_history_file' = new_history
        /\ UNCHANGED <<recipes_file, pantry_file, pricing_file,
                       price_history_file, now, new_recipe_ingredients,
                       add_recipe, script_runs>>
        /\ Rerun(weekly_recipes, recipe_servings)

\* Planner tab, "Save This Week's Meals to History" (lines 675-685), drawn
\* below the shopping list of a selection.
SaveToHistory(week_date) ==
    LET selected_recipes == planner.selected_recipes
        new_history == [i \in 1..Len(selected_recipes) |->
                          HistoryRow(week_date, selected_recipes[i])]
    IN  /\ planner.shown
        /\ Len(meal_history) + Len(new_history) <= MaxHistory
        /\ meal_history_file' = meal_history \o new_history
        /\ UNCHANGED <<recipes_file, pantry_file, pricing_file,
                       price_history_file, now, new_recipe_ingredients,
                       add_recipe, script_runs>>
        /\ Rerun(weekly_recipes, recipe_servings)

\* A session that starts on two recipes and a history of one week.
InitHistory ==
    /\ recipes_file =
         <<RecipeRow("Pasta", "Tomato", 200, "g", "Veg", 2),
           RecipeRow("Salad", "Tomato", 50, "g", "Veg", 2)>>
    /\ pantry_file = << >>
    /\ pricing_file = << >>
    /\ price_history_file = << >>
    /\ meal_history_file = <<HistoryRow(Today - 14, "Pasta")>>
    /\ now = Today
    /\ EmptySession

NextHistory ==
    \/ \E recipe \in RecipeNames(recipes) : Multiselect(recipe)
    \/ \E week_date \in WeekDates : SaveToHistory(week_date)
    \/ \E recipe_to_edit \in RecipeNames(recipes) :
          \E new_name \in {recipe_to_edit, "Stew"} :
             SaveChanges(recipe_to_edit, new_name,
                         <<"3", "0", " ", "m", "i", "n">>, "", 2)
    \/ \E recipe_to_edit \in RecipeNames(recipes) : DeleteRecipe(recipe_to_edit)

SpecHistory == InitHistory /\ [][NextHistory]_vars

----------------------------------------------------------------------------
(* Two browser sessions on the same files.  Every interaction of a session  *)
(* is a script run of its own: the run loads the tables (lines 193-196),    *)
(* draws the page, and the handler of the clicked button changes the loaded *)
(* table and saves it.  Runs of different sessions are not ordered: a run   *)
(* is two steps here, the load and the save.                                *)

\* The loaded table with the rating of lines 420-421 set.
WithRating(table, recipe, new_rating) ==
    [i \in 1..Len(table) |->
        IF table[i].recipe_name = recipe
        THEN [table[i] EXCEPT !.rating = new_rating]
        ELSE table[i]]

\* A session's click on "Save Rating": its script run starts and loads the
\* recipe table.
ClickSaveRating(s, recipe, new_rating) ==
    /\ script_runs[s].at \in {"new", "saved"}
    /\ recipe \in RecipeNames(recipes)
    /\ \A i \in 1..Len(recipes) :
          RatingIndex(recipes[i].rating) + 1 \in 1..Len(RatingOptions)
    /\ new_rating \in Range(RatingOptions)
    /\ script_runs' = [script_runs EXCEPT ![s] =
          [at |-> "loaded", recipes |-> recipes, recipe |-> recipe,
           new_rating |-> new_rating]]
    /\ UNCHANGED <<recipes_file, pantry_file, pricing_file,
                   price_history_file, meal_history_file, now,
                   weekly_recipes, recipe_servings, planner, recommendations,
                   new_recipe_ingredients, add_recipe>>

\* A variant of the save below that reads the table again before it
\* changes it.
RunSaveRatingAlt(s) ==
    LET run == script_runs[s]
    IN  /\ run.at = "loaded"
        /\ recipes_file' = WithRating(recipes, run.recipe, run.new_rating)
        /\ script_runs' = [script_runs EXCEPT ![s].at = "saved"]
        /\ UNCHANGED <<pantry_file, pricing_file, price_history_file,
                       meal_history_file, now, new_recipe_ingredients,
                       add_recipe>>
        /\ Rerun(weekly_recipes, recipe_servings)

\* The run reaches the button's handler (lines 419-423): the rating is set
\* in the table the run loaded, the table is saved, and the page is drawn
\* again from the saved file.
RunSaveRating(s) ==
    LET run == script_runs[s]
    IN  /\ run.at = "loaded"
        /\ recipes_file' = WithRating(run.recipes, run.recipe, run.new_rating)
        /\ script_runs' = [script_runs EXCEPT ![s].at = "saved"]
        /\ UNCHANGED <<pantry_file, pricing_file, price_history_file,
                       meal_history_file, now, new_recipe_ingredients,
                       add_recipe>>
        /\ Rerun(weekly_recipes, recipe_servings)

\* Two sessions that start on two rated recipes.
InitSessions ==
    /\ recipes_file =
         <<RecipeLine("Pasta", "Tomato", 200, "g", "Veg", 2, "3",
                      <<"3", "0", " ", "m", "i", "n">>),
           RecipeLine("Salad", "Tomato", 50, "g", "Veg", 2, "3",
                      <<"3", "0", " ", "m", "i", "n">>)>>
    /\ pantry_file = << >>
    /\ pricing_file = << >>
    /\ price_history_file = << >>
    /\ meal_history_file = << >>
    /\ now = Today
    /\ EmptySession

NextSessions ==
    \/ \E s \in Sessions, recipe \in {"Pasta", "Salad"}, new_rating \in {"4", "5"} :
          ClickSaveRating(s, recipe, new_rating)
    \/ \E s \in Sessions : RunSaveRating(s)

SpecSessions == InitSessions /\ [][NextSessions]_vars

----------------------------------------------------------------------------
(* The pricing tab's three price saves.  Each reads the clock for the save  *)
(* timestamp; the tab is drawn only when the planner tab raised nothing.    *)

\* ingredient_pricing, as loaded at the top of the script run
ingredient_pricing == load_pricing

\* save_pricing(df), then st.rerun()
SaveAndRerun(df) ==
    LET saved == save_pricing(df, now + 1)
    IN  /\ now < MaxClock
        /\ now' = now + 1
        /\ pricing_file' = saved.pricing
        /\ price_history_file' = saved.history
        /\ UNCHANGED <<recipes_file, pantry_file, meal_history_file,
                       new_recipe_ingredients, add_recipe, script_runs>>
        /\ Rerun(weekly_recipes, recipe_servings)

\* "Save Price" (lines 830-857): update every row with the key, or add a row.
SavePriceTable(pricing, ingredient_name, ingredient_unit, price_per_unit) ==
    IF PriceMatch(pricing, ingredient_name, ingredient_unit) # << >>
    THEN [i \in 1..Len(pricing) |->
            IF /\ Lower(pricing[i].ingredient) = Lower(ingredient_name)
               /\ Lower(pricing[i].unit) = Lower(ingredient_unit)
            THEN [pricing[i] EXCEPT !.price_per_unit = price_per_unit]
            ELSE pricing[i]]
    ELSE Append(pricing, PriceRow(ingredient_name, ingredient_unit,
                                  price_per_unit, NaN))

SavePrice(ingredient_name, ingredient_unit, price_per_unit) ==
    /\ planner.error = "none"
    /\ IF ingredient_name # "" /\ ingredient_unit # ""
       THEN SaveAndRerun(SavePriceTable(ingredient_pricing, ingredient_name,
                                        ingredient_unit, price_per_unit))
       ELSE \* "Please fill in ingredient name and unit."
            UNCHANGED vars

\* recipes[['ingredient', 'unit']].drop_duplicates() without a price
\* (lines 818, 865-874)
missing_prices ==
    LET all_ingredients ==
            Unique([i \in 1..Len(recipes) |->
                      <<recipes[i].ingredient, recipes[i].unit>>])
    IN  SelectSeq(all_ingredients,
                  LAMBDA k : PriceMatch(ingredient_pricing, k[1], k[2]) = << >>)

\* The save button of one ingredient without a price (lines 896-904).
SaveMissingPrice(idx, price) ==
    /\ planner.error = "none"
    /\ idx \in 1..Len(missing_prices)
    /\ SaveAndRerun(Append(ingredient_pricing,
                           PriceRow(missing_prices[idx][1],
                                    missing_prices[idx][2], price, NaN)))

\* display_pricing.sort_values('ingredient'), the table the editor shows
display_pricing ==
    SortByKey(ingredient_pricing,
              [i \in 1..Len(ingredient_pricing) |->
                 StrRank(ingredient_pricing[i].ingredient)])

\* "Save All Changes" (lines 913-943) after the user has retyped the
\* ingredient, unit and price cells of one row of the editor (possibly to the
\* values they had).
SaveAllChanges(idx, key, price) ==
    /\ planner.error = "none"
    /\ ingredient_pricing # << >>
    /\ idx \in 1..Len(display_pricing)
    /\ LET edited_pricing ==
             [display_pricing EXCEPT ![idx] =
                 PriceRow(key[1], key[2], price, @.last_updated)]
       IN  SaveAndRerun(edited_pricing)

NextPricing ==
    \/ \E key \in PriceKeys \cup {<<"", "g">>}, price \in Prices :
          SavePrice(key[1], key[2], price)
    \/ \E idx \in 1..3, price \in Prices : SaveMissingPrice(idx, price)
    \/ \E idx \in 1..MaxClock, key \in PriceKeys, price \in Prices :
          SaveAllChanges(idx, key, price)

SpecPricing == InitPricing /\ [][NextPricing]_vars

\* A later session, on the files three price saves of SpecPricing leave
\* (Save Price of Salt, Save Price of tomato per G, the Salt row retyped to
\* Tomato per g): two rows whose keys are equal up to case.
InitRetry ==
    /\ recipes_file =
         <<RecipeRow("Pasta", "Tomato", 200, "g", "Veg", 2),
           RecipeRow("Pasta", "tomato", 100, "g", "Veg", 2),
           RecipeRow("Salad", "Tomato", 50, "grams", "Veg", Blank)>>
    /\ pantry_file = << >>
    /\ pricing_file =
         <<PriceRow("Tomato", "g", 2000, 0), PriceRow("tomato", "G", 3000, 0)>>
    /\ price_history_file =
         <<HistoryEntry("tomato", "G", 0, 3000, 0),
           HistoryEntry("Tomato", "g", 3000, 2000, 0)>>
    /\ meal_history_file = << >>
    /\ now = 0
    /\ EmptySession

SpecRetry == InitRetry /\ [][NextPricing]_vars

----------------------------------------------------------------------------
(* Properties of the price saves, under SpecPricing.                        *)

\* The (ingredient, unit) key of a row as the source compares it.
FoldedKey(r) == <<Lower(r.ingredient), Lower(r.unit)>>

\* A step that saved prices: every save reads a later clock.
IsPriceSave == now' # now

\* The history rows a step added after the rows the file held.
AppendedHistory ==
    SubSeq(price_history_file', Len(price_history_file) + 1,
           Len(price_history_file'))

\* C1, for one step: in a price save, for every key that the persisted price table already
\* holds, the history rows appended for that key are exactly, and in order,
\* one per row of the new table with that key whose price differs from the
\* persisted price (the key's first persisted row) by more than 0.001; each
\* carries that persisted price as old_price and the row's price as
\* new_price.  A row within 0.001 of the persisted price appends nothing.
C1_Step ==
    IsPriceSave =>
      \A i \in 1..Len(pricing_file) :
        LET k       == FoldedKey(pricing_file[i])
            first   == CHOOSE j \in 1..Len(pricing_file) :
                          /\ FoldedKey(pricing_file[j]) = k
                          /\ \A m \in 1..(j - 1) : FoldedKey(pricing_file[m]) # k
            old     == pricing_file[first].price_per_unit
            changed == SelectSeq(pricing_file',
                          LAMBDA r : /\ FoldedKey(r) = k
                                     /\ \/ r.price_per_unit - old > PriceThreshold
                                        \/ old - r.price_per_unit > PriceThreshold)
            entries == SelectSeq(AppendedHistory, LAMBDA e : FoldedKey(e) = k)
        IN  /\ Len(entries) = Len(changed)
            /\ \A n \in 1..Len(entries) :
                  /\ entries[n].old_price = old
                  /\ entries[n].new_price = changed[n].price_per_unit
                  /\ entries[n].ingredient = changed[n].ingredient
                  /\ entries[n].unit = changed[n].unit

\* C1: every price save appends, for the keys the persisted price table
\* already holds, exactly one history row per price that changed by more than
\* 0.001, carrying the old and the new price, and none otherwise.
C1_HistoryOnPriceChange == [][C1_Step]_vars

\* C1's case: a price went from 1.00 to 1.50 at the second save, which
\* recorded it, and a third save of the same prices recorded nothing.
C1_Witness ==
    /\ now = 3
    /\ Len(price_history_file) = 1
    /\ price_history_file[1].old_price = 2000
    /\ price_history_file[1].new_price = 3000
    /\ price_history_file[1].changed_at = 2
    /\ \A i \in 1..Len(pricing_file) : pricing_file[i].last_updated = 3

\* C2, for one step: in a price save, for every key of the new table that the persisted
\* price table does not hold (the persisted table may be absent or empty),
\* the history rows appended for that key are exactly one per row of the new
\* table with that key, with old_price 0 and the row's price as new_price.
C2_Step ==
    IsPriceSave =>
      \A i \in 1..Len(pricing_file') :
        LET k       == FoldedKey(pricing_file'[i])
            rows    == SelectSeq(pricing_file', LAMBDA r : FoldedKey(r) = k)
            entries == SelectSeq(AppendedHistory, LAMBDA e : FoldedKey(e) = k)
        IN  (\A j \in 1..Len(pricing_file) : FoldedKey(pricing_file[j]) # k) =>
              /\ Len(entries) = Len(rows)
              /\ \A n \in 1..Len(entries) :
                    /\ entries[n].old_price = 0
                    /\ entries[n].new_price = rows[n].price_per_unit

\* C2: every price save appends, for each row whose key the persisted price
\* table does not hold (the table may be absent or empty), exactly one
\* history row with old_price 0 and the row's price as new_price.
C2_NewKeyRecorded == [][C2_Step]_vars

\* C3, for one step: the step keeps every price-history row it found, unchanged and in
\* place; new rows come after them.
C3_Step ==
    /\ Len(price_history_file) <= Len(price_history_file')
    /\ SubSeq(price_history_file', 1, Len(price_history_file)) = price_history_file

\* C3: the price history is append-only: every step keeps the rows it found,
\* unchanged and in order, and adds rows only at the end.
C3_HistoryAppendOnly == [][C3_Step]_vars

\* C3's case: the history holds rows of two different saves.
C3_Witness ==
    /\ Len(price_history_file) >= 2
    /\ price_history_file[1].changed_at
         < price_history_file[Len(price_history_file)].changed_at

\* C4: the persisted price table has at most one row per case-insensitive
\* (ingredient, unit) key.
C4_OnePricePerKey ==
    \A i, j \in 1..Len(pricing_file) :
        i # j => FoldedKey(pricing_file[i]) # FoldedKey(pricing_file[j])

----------------------------------------------------------------------------
(* Properties of the planner's shopping list and costs, under SpecPlanner.  *)

\* The stored servings of a recipe: that of its first line.
BaseServings(recipe) ==
    recipes[CHOOSE j \in 1..Len(recipes) :
              /\ recipes[j].recipe_name = recipe
              /\ \A m \in 1..(j - 1) : recipes[m].recipe_name # recipe].servings

\* The (ingredient, unit, category) of a recipe line or shopping-list line.
Triple(r) == <<r.ingredient, r.unit, r.category>>

\* C5: the price of a shopping-list line is the price_per_unit of the (first)
\* price row whose ingredient and unit equal the line's after lower-casing,
\* and 0 when there is none; a line without a price row is in the
\* missing-price list.  Units are compared as spelled, so a price per "g"
\* does not price a line in "grams".
C5_PriceLookup ==
    planner.shown =>
      \A n \in 1..Len(planner.shopping_list) :
        LET line == planner.shopping_list[n]
            rows == {i \in 1..Len(pricing_file) :
                       /\ Lower(pricing_file[i].ingredient) = Lower(line.ingredient)
                       /\ Lower(pricing_file[i].unit) = Lower(line.unit)}
        IN  /\ rows = {} =>
                 /\ line.price_per_unit = 0
                 /\ line \in Range(planner.items_without_price)
            /\ rows # {} =>
                 line.price_per_unit =
                   pricing_file[CHOOSE i \in rows : \A j \in rows : i <= j].price_per_unit

\* C5's case: a line in "g" priced through a row spelled in another case,
\* beside a line of the same ingredient in "grams" that has no price and is
\* listed as missing one.
C5_Witness ==
    /\ planner.shown
    /\ \E a, b \in Range(planner.shopping_list) :
          /\ a.ingredient = "Tomato" /\ a.unit = "g" /\ a.price_per_unit = 2000
          /\ b.ingredient = "Tomato" /\ b.unit = "grams" /\ b.price_per_unit = 0
          /\ b \in Range(planner.items_without_price)
          /\ a \notin Range(planner.items_without_price)

\* C6: every line of every selected recipe enters the aggregation with its
\* stored quantity times that recipe's servings override over that recipe's
\* stored servings (so unchanged when the two are equal).
C6_ServingsScaling ==
    planner.shown =>
      LET rows == SelectSeq(recipes, LAMBDA r : r.recipe_name \in Range(weekly_recipes))
      IN  /\ Len(planner.selected_data) = Len(rows)
          /\ \A i \in 1..Len(rows) :
                LET recipe == rows[i].recipe_name
                    scaled == planner.selected_data[i]
                IN  /\ scaled.recipe_name = recipe
                    /\ scaled.ingredient = rows[i].ingredient
                    /\ scaled.quantity.n * BaseServings(recipe)
                         = rows[i].quantity * recipe_servings[recipe]
                             * scaled.quantity.d

\* C6's case: Pasta (stored servings 1) planned for 2 and Salad (stored
\* servings 2) planned for 1: 200 g becomes 400 g and 50 g becomes 25 g.
C6_Witness ==
    /\ planner.shown
    /\ Len(planner.selected_data) = 3
    /\ recipe_servings["Pasta"] = 2 /\ recipe_servings["Salad"] = 1
    /\ planner.selected_data[1].quantity = RatInt(400)
    /\ planner.selected_data[3].quantity = RatInt(25)

\* C7: for a selected recipe whose stored servings is 0 and whose servings
\* input is drawn, the run raises no division by zero and the recipe's
\* multiplier is its servings override (the base counts as 1).
C7_ZeroBaseCountsAsOne ==
    \A recipe \in Range(weekly_recipes) :
        (BaseServings(recipe) = 0 /\ recipe \in planner.widgets) =>
            /\ planner.error # "ZeroDivisionError, line 490"
            /\ recipe \in DOMAIN planner.servings_multipliers
            /\ planner.servings_multipliers[recipe] = RatInt(recipe_servings[recipe])

\* C8: the cost-per-serving division never has a zero divisor; the figure is
\* computed exactly when the meal cost is positive and is then the meal cost
\* over the sum of the selected recipes' servings overrides; the per-recipe
\* figures, when shown, divide by servings that are positive, and weighted by
\* those servings they add up to the meal cost.
C8_CostPerServing ==
    /\ planner.error # "ZeroDivisionError, line 570"
    /\ planner.shown =>
         LET total == IntSum([i \in 1..Len(weekly_recipes) |->
                                recipe_servings[weekly_recipes[i]]])
             per   == planner.recipe_cost_per_serving
         IN  /\ total > 0
             /\ RatPos(planner.meal_cost) <=> planner.cost_per_serving # << >>
             /\ planner.cost_per_serving # << >> =>
                  RatMul(planner.cost_per_serving[1], RatInt(total)) = planner.meal_cost
             /\ DOMAIN per # {} =>
                  /\ DOMAIN per = Range(weekly_recipes)
                  /\ \A r \in DOMAIN per : recipe_servings[r] > 0
                  /\ RatSum([i \in 1..Len(weekly_recipes) |->
                               RatMul(per[weekly_recipes[i]],
                                      RatInt(recipe_servings[weekly_recipes[i]]))])
                       = planner.meal_cost

\* C8's case: two selected recipes with different overrides and a positive
\* meal cost.
C8_Witness ==
    /\ planner.shown
    /\ planner.cost_per_serving # << >>
    /\ Len(weekly_recipes) = 2
    /\ recipe_servings[weekly_recipes[1]] = 1
    /\ recipe_servings[weekly_recipes[2]] = 2

\* C9: the grouped list has exactly one line per (ingredient, unit, category)
\* triple of the scaled lines, triples compared as spelled; the line's
\* quantity is the sum of the scaled quantities of the triple's lines and its
\* used-in-recipes are those lines' recipe names, sorted, each once.
C9_OneLinePerTriple ==
    planner.shown =>
      LET data    == planner.selected_data
          triples == {Triple(r) : r \in Range(data)}
      IN  /\ {Triple(l) : l \in Range(planner.grouped)} = triples
          /\ Len(planner.grouped) = Cardinality(triples)
          /\ \A l \in Range(planner.grouped) :
                LET rows == SelectSeq(data, LAMBDA r : Triple(r) = Triple(l))
                IN  /\ l.quantity = RatSum([i \in 1..Len(rows) |-> rows[i].quantity])
                    /\ Range(l.used_in_recipes) = RecipeNames(rows)
                    /\ \A a, b \in 1..Len(l.used_in_recipes) :
                          a < b => StrLess(l.used_in_recipes[a], l.used_in_recipes[b])

\* C10: no line of the shopping list names a pantry staple, whatever the
\* case and the unit, and the list is the grouped list without exactly the
\* lines that do (all of it when no line does).
C10_PantryExcluded ==
    planner.shown =>
      LET staples == {Lower(pantry_file[i].ingredient) : i \in 1..Len(pantry_file)}
          kept    == SelectSeq(planner.grouped,
                               LAMBDA l : Lower(l.ingredient) \notin staples)
      IN  /\ \A line \in Range(planner.shopping_list) :
                Lower(line.ingredient) \notin staples
          /\ Len(planner.shopping_list) = Len(kept)
          /\ \A n \in 1..Len(kept) :
                /\ Triple(planner.shopping_list[n]) = Triple(kept[n])
                /\ planner.shopping_list[n].quantity = kept[n].quantity

\* C10's case: the pantry holds "TOMATO" and a staple no recipe uses; the
\* recipes' "Tomato" line is dropped and their other line is kept.
C10_Witness ==
    /\ planner.shown
    /\ {pantry_file[i].ingredient : i \in 1..Len(pantry_file)} = {"TOMATO", "Pepper"}
    /\ Len(planner.grouped) = 2
    /\ Len(planner.shopping_list) = 1
    /\ \E l \in Range(planner.grouped) : l.ingredient = "Tomato"
    /\ planner.shopping_list[1].ingredient = "Salt"

\* The price on file for an ingredient and a unit: that of the first price
\* row that equals both after lower-casing, 0 when there is none.
PriceOnFile(ingredient, unit) ==
    LET rows == {i \in 1..Len(pricing_file) :
                   /\ Lower(pricing_file[i].ingredient) = Lower(ingredient)
                   /\ Lower(pricing_file[i].unit) = Lower(unit)}
    IN  IF rows = {} THEN 0
        ELSE pricing_file[CHOOSE i \in rows : \A j \in rows : i <= j].price_per_unit

\* C11: every line of the shopping list carries the quantity of its group
\* and item_cost = that quantity x the price on file for its ingredient and
\* unit (0 without a price); the shopping cost is the sum of item_cost over
\* the lines of the list, which are the lines left after the pantry filter.
C11_ItemCost ==
    planner.shown =>
      /\ \A n \in 1..Len(planner.shopping_list) :
            LET line == planner.shopping_list[n]
            IN  /\ \E g \in Range(planner.grouped) :
                      Triple(g) = Triple(line) /\ g.quantity = line.quantity
                /\ line.item_cost.n * line.quantity.d
                     = line.quantity.n * PriceOnFile(line.ingredient, line.unit)
                         * line.item_cost.d
      /\ planner.shopping_list_cost
           = RatSum([n \in 1..Len(planner.shopping_list) |->
                       planner.shopping_list[n].item_cost])

\* C11's case: Pasta for 2 with "TOMATO" in the pantry: the tomato line is
\* filtered out and the shopping cost is that of 200 g of salt at 1.50.
C11_Witness ==
    /\ planner.shown
    /\ Len(planner.grouped) = 2
    /\ Len(planner.shopping_list) = 1
    /\ planner.shopping_list[1].ingredient = "Salt"
    /\ planner.shopping_list[1].quantity = RatInt(200)
    /\ planner.shopping_list[1].price_per_unit = 3000
    /\ planner.shopping_list[1].item_cost = RatInt(600000)
    /\ planner.shopping_list_cost = RatInt(600000)

\* The cost of scaled recipe lines: quantity x price on file.
LinesCost(rows) ==
    RatSum([i \in 1..Len(rows) |->
              RatMul(rows[i].quantity,
                     RatInt(PriceOnFile(rows[i].ingredient, rows[i].unit)))])

\* The lower-cased pantry staples.
Staples == {Lower(pantry_file[i].ingredient) : i \in 1..Len(pantry_file)}

\* C12: the meal cost is the sum of quantity x price on file over every
\* scaled line of the selected recipes, pantry staples included; it is at
\* least the shopping cost, and exceeds it by exactly the cost of the lines
\* whose ingredient is a pantry staple.
C12_MealCost ==
    planner.shown =>
      /\ planner.meal_cost = LinesCost(planner.selected_data)
      /\ planner.shopping_list_cost.n * planner.meal_cost.d
           <= planner.meal_cost.n * planner.shopping_list_cost.d
      /\ planner.meal_cost
           = RatAdd(planner.shopping_list_cost,
                    LinesCost(SelectSeq(planner.selected_data,
                                        LAMBDA r : Lower(r.ingredient) \in Staples)))

\* C13: in the shopping list, with pantry staples removed and prices
\* attached, every line's (category, ingredient) is at most the next line's:
\* the category is smaller, or it is the same and the ingredient is not
\* greater.
C13_SortedByCategoryIngredient ==
    planner.shown =>
      \A n \in 1..(Len(planner.shopping_list) - 1) :
        LET a == planner.shopping_list[n]
            b == planner.shopping_list[n + 1]
        IN  \/ StrLess(a.category, b.category)
            \/ a.category = b.category /\ ~StrLess(b.ingredient, a.ingredient)

\* C13's case: with a pantry that holds no ingredient of the recipes, the
\* priced list shows "Yogurt" of category "Dairy" before "Tomato" of
\* category "Veg".
C13_Witness ==
    /\ planner.shown
    /\ pantry_file # << >>
    /\ Len(planner.shopping_list) = 2
    /\ planner.shopping_list[1].ingredient = "Yogurt"
    /\ planner.shopping_list[1].category = "Dairy"
    /\ planner.shopping_list[2].ingredient = "Tomato"
    /\ planner.shopping_list[2].price_per_unit = 2000

----------------------------------------------------------------------------
(* Properties of the weekly selection, under SpecSelection.                 *)

C14_Step ==
    /\ \A i, j \in 1..Len(weekly_recipes') :
          i # j => weekly_recipes'[i] # weekly_recipes'[j]
    /\ ( /\ planner.shown /\ planner'.shown
         /\ Range(planner'.selected_recipes) = Range(planner.selected_recipes)
         /\ recipe_servings' = recipe_servings
         /\ recipes_file' = recipes_file )
       => planner'.shopping_list = planner.shopping_list

\* C14: after every step (Add to Plan, toggle, Add All to Weekly Planner,
\* multiselect change) weekly_recipes holds each recipe name at most once,
\* and a step that leaves the set of selected recipes as it was (a recipe
\* selected again) leaves the shopping list as it was.
C14_SetSemantics == [][C14_Step]_vars

\* C14's case: with Pasta and Salad selected and shown, "Add All to Weekly
\* Planner" of a plan that holds them again has left the list with each
\* once (here in the other order).
C14_Witness ==
    /\ planner.shown
    /\ planner.selected_recipes = <<"Pasta", "Salad">>
    /\ weekly_recipes = <<"Salad", "Pasta">>

C15_Step ==
    \A recipe \in {"Pasta", "Salad"} :
        ( /\ recipe \notin Range(planner.selected_recipes)
          /\ recipe \in Range(planner'.selected_recipes)
          /\ planner'.shown )
        => planner'.servings_multipliers[recipe] = RatInt(1)

\* C15: when a step (re)selects a recipe - its servings input was not shown
\* before the step, so the user has not changed it since - the run computes
\* the multiplier 1 for it: the override starts at the stored servings.
C15_OverrideDefaultsToStored == [][C15_Step]_vars

----------------------------------------------------------------------------
(* Properties of the recommendations, under SpecScorer.  Each property      *)
(* spells out the part of the score it is about and takes the other parts   *)
(* from the scorer.                                                         *)

\* The first stored line of a recipe, which carries the metadata scored.
FirstLine(recipe) ==
    recipes[CHOOSE j \in 1..Len(recipes) :
              /\ recipes[j].recipe_name = recipe
              /\ \A m \in 1..(j - 1) : recipes[m].recipe_name # recipe]

\* N: the number of meal-history rows of a recipe.
TimesCooked(recipe) ==
    Cardinality({i \in 1..Len(meal_history_file) :
                   meal_history_file[i].recipe_name = recipe})

\* The whole days from the latest week_start of a recipe (N > 0) to now.
DaysSince(recipe) ==
    LET starts == {meal_history_file[i].week_start :
                     i \in {j \in 1..Len(meal_history_file) :
                              meal_history_file[j].recipe_name = recipe}}
    IN  now - (CHOOSE d \in starts : \A e \in starts : e <= d)

HasReason(rec, kind) == \E i \in 1..Len(rec.reasons) : rec.reasons[i].kind = kind

RatingPart(recipe) == RatingScore(FirstLine(recipe).rating).score

HistoryPart(recipe) == HistoryScore(meal_history, recipe, now).score

QuickPart(recipe) == QuickScore(FirstLine(recipe).cook_time).score

\* C16: the rating adds rating x 10 to the score when it is a number in
\* 1..5, and the "rated" reason when it is 4 or more; an empty, unparseable
\* or out-of-range rating adds 0 and no reason.
C16_RatingContribution ==
    \A n \in 1..Len(recommendations) :
        LET rec     == recommendations[n]
            rating  == FirstLine(rec.recipe).rating
            inrange == rating \in {"1", "2", "3", "4", "5"}
            points  == IF inrange THEN Float(rating).value * 10 ELSE 0
        IN  /\ rec.score = Plus(Plus(Num(points), HistoryPart(rec.recipe)),
                                QuickPart(rec.recipe))
            /\ HasReason(rec, "rated") <=> (inrange /\ Float(rating).value >= 4)

\* C17: a recipe without a meal-history row gets +10 and "never tried",
\* whether the history is empty or holds other recipes only; a recipe with
\* history rows gets neither (its history part is one of +15, 0, -20, with
\* or without the +5 of a favorite).  Rated 5, never cooked and not quick,
\* a recipe scores 60.
C17_NeverTried ==
    \A n \in 1..Len(recommendations) :
        LET rec == recommendations[n]
            N   == TimesCooked(rec.recipe)
        IN  /\ N = 0 =>
                 /\ HasReason(rec, "never tried")
                 /\ rec.score = Plus(Plus(RatingPart(rec.recipe), Num(10)),
                                     QuickPart(rec.recipe))
            /\ N > 0 =>
                 /\ ~HasReason(rec, "never tried")
                 /\ \E days \in {15, 0, -20}, favorite \in {0, 5} :
                       rec.score = Plus(Plus(RatingPart(rec.recipe),
                                             Num(days + favorite)),
                                        QuickPart(rec.recipe))
            /\ ( /\ N = 0 /\ FirstLine(rec.recipe).rating = "5"
                 /\ QuickPart(rec.recipe) = Num(0) )
               => rec.score = Num(60)

\* C17's case: the history holds Salad only; Pasta, rated 5 and not quick,
\* is "never tried" and scores 60, and Salad is not "never tried".
C17_Witness ==
    /\ meal_history_file = <<HistoryRow(Today - 10, "Salad")>>
    /\ \E a, b \in Range(recommendations) :
          /\ a.recipe = "Pasta" /\ HasReason(a, "never tried")
          /\ a.score = Num(60)
          /\ b.recipe = "Salad" /\ ~HasReason(b, "never tried")

\* C18: for a recipe with history rows, with days counted from its latest
\* week_start: more than 60 days add 15 and the reason "not cooked in <days>
\* days"; fewer than 14 take 20 off and add no reason; 14 to 60 add nothing.
C18_DaysSinceLastCooked ==
    \A n \in 1..Len(recommendations) :
        LET rec == recommendations[n]
            N   == TimesCooked(rec.recipe)
        IN  N > 0 =>
              LET days  == DaysSince(rec.recipe)
                  delta == IF days > 60 THEN 15 ELSE IF days < 14 THEN -20 ELSE 0
                  favorite == IF N >= 3 THEN 5 ELSE 0
              IN  /\ rec.score = Plus(Plus(RatingPart(rec.recipe),
                                           Num(delta + favorite)),
                                      QuickPart(rec.recipe))
                  /\ days > 60 =>
                       \E i \in 1..Len(rec.reasons) :
                          rec.reasons[i] = Reason("not cooked in", days)
                  /\ days <= 60 => ~HasReason(rec, "not cooked in")

\* C18's case: Pasta, rated 4 and not quick, cooked 80, 5 and 90 days ago in
\* this order of rows: the 5 days count, so it scores 40 - 20 + 5 = 25 and
\* has no "not cooked in" reason.
C18_Witness ==
    /\ meal_history_file =
         <<HistoryRow(Today - 80, "Pasta"), HistoryRow(Today - 5, "Pasta"),
           HistoryRow(Today - 90, "Pasta")>>
    /\ \E a \in Range(recommendations) :
          /\ a.recipe = "Pasta" /\ a.score = Num(25)
          /\ ~HasReason(a, "not cooked in")

\* C19: a recipe cooked 3 times or more gets +5 and the "favorite" reason on
\* top of whatever its days gave (+15, 0 or -20), and a recipe cooked less
\* often gets neither; cooked 3 times, last 70 days ago, unrated and not
\* quick, a recipe scores 20.
C19_FavoriteStacks ==
    \A n \in 1..Len(recommendations) :
        LET rec == recommendations[n]
            N   == TimesCooked(rec.recipe)
        IN  /\ N >= 3 =>
                 LET days  == DaysSince(rec.recipe)
                     delta == IF days > 60 THEN 15 ELSE IF days < 14 THEN -20 ELSE 0
                 IN  /\ \E i \in 1..Len(rec.reasons) :
                           rec.reasons[i] = Reason("favorite", N)
                     /\ rec.score = Plus(Plus(RatingPart(rec.recipe),
                                              Num(delta + 5)),
                                         QuickPart(rec.recipe))
            /\ N < 3 => ~HasReason(rec, "favorite")
            /\ ( /\ N = 3 /\ DaysSince(rec.recipe) = 70
                 /\ FirstLine(rec.recipe).rating \in {NaN, ""}
                 /\ QuickPart(rec.recipe) = Num(0) )
               => rec.score = Num(20)

\* C20: a recipe gets +5 and the "quick meal" reason exactly when the text
\* of its cook_time has "15" or "20" in it somewhere; "25" alone gives
\* nothing.
C20_QuickMeal ==
    \A n \in 1..Len(recommendations) :
        LET rec  == recommendations[n]
            cell == FirstLine(rec.recipe).cook_time
            text == IF cell = CookNaN THEN <<"n", "a", "n">> ELSE cell
            has  == \E i \in 1..(Len(text) - 1) :
                       \/ text[i] = "1" /\ text[i + 1] = "5"
                       \/ text[i] = "2" /\ text[i + 1] = "0"
        IN  /\ HasReason(rec, "quick meal") <=> has
            /\ rec.score = Plus(Plus(RatingPart(rec.recipe),
                                     HistoryPart(rec.recipe)),
                                Num(IF has THEN 5 ELSE 0))

\* C20's case: Pasta cooks in "25 min": the dashboard lists it among the
\* quick meals, the scorer gives it no "quick meal" reason, and Salad
\* ("20 min") has the reason.
C20_Witness ==
    /\ FirstLine("Pasta").cook_time = <<"2", "5", " ", "m", "i", "n">>
    /\ "Pasta" \in Range(quick_names(recipes))
    /\ \E a, b \in Range(recommendations) :
          /\ a.recipe = "Pasta" /\ ~HasReason(a, "quick meal")
          /\ b.recipe = "Salad" /\ HasReason(b, "quick meal")

\* The reasons a recipe has earned, in the order the scorer gathers them:
\* rating, recency or never tried, favorite, quick meal.
EarnedReasons(recipe) ==
    LET rating == FirstLine(recipe).rating
        cell   == FirstLine(recipe).cook_time
        text   == IF cell = CookNaN THEN <<"n", "a", "n">> ELSE cell
        N      == TimesCooked(recipe)
    IN  (IF rating # "" /\ Parseable(rating) /\ IsGE(Float(rating), Num(4))
         THEN <<Reason("rated", Float(rating).value)>> ELSE << >>)
        \o (IF N = 0 THEN <<Reason("never tried", 0)>>
            ELSE IF DaysSince(recipe) > 60
                 THEN <<Reason("not cooked in", DaysSince(recipe))>> ELSE << >>)
        \o (IF N >= 3 THEN <<Reason("favorite", N)>> ELSE << >>)
        \o (IF \E i \in 1..(Len(text) - 1) :
                  \/ text[i] = "1" /\ text[i + 1] = "5"
                  \/ text[i] = "2" /\ text[i + 1] = "0"
            THEN <<Reason("quick meal", 0)>> ELSE << >>)

\* C21: the reasons of a recommendation are "Good choice!" exactly when the
\* recipe earned no reason; otherwise they are every earned reason in the
\* order rating, recency or never tried, favorite, quick meal.
C21_GoodChoice ==
    \A n \in 1..Len(recommendations) :
        LET rec    == recommendations[n]
            earned == EarnedReasons(rec.recipe)
        IN  /\ (rec.reasons = GoodChoice) <=> (earned = << >>)
            /\ earned # << >> => rec.reasons = earned

\* C21's case: Pasta, rated 3, cooked once 5 days ago and taking "45 min",
\* shows "Good choice!", and Salad shows its three reasons in order.
C21_Witness ==
    /\ FirstLine("Pasta").rating = "3"
    /\ FirstLine("Pasta").cook_time = <<"4", "5", " ", "m", "i", "n">>
    /\ meal_history_file = <<HistoryRow(Today - 5, "Pasta")>>
    /\ \E a, b \in Range(recommendations) :
          /\ a.recipe = "Pasta" /\ a.reasons = GoodChoice
          /\ b.recipe = "Salad"
          /\ b.reasons = <<Reason("rated", 5), Reason("never tried", 0),
                           Reason("quick meal", 0)>>

\* The recipe names of the loaded table in first-seen order.
FirstSeen == Unique([i \in 1..Len(recipes) |-> recipes[i].recipe_name])

\* The place of a recipe in the first-seen order.
Place(recipe) == CHOOSE i \in 1..Len(FirstSeen) : FirstSeen[i] = recipe

ScoreOf(recipe) == RecipeScore(recipes, meal_history, recipe, now).score

\* C22: the recommendations hold min(5, number of recipe names) entries, one
\* per recipe name, each with the score of its recipe, by score descending
\* with equal scores in first-seen order, and no recipe left out scores
\* strictly more than a recipe shown.
C22_RankedByScore ==
    LET n == Len(recommendations)
    IN  /\ n = (IF Len(FirstSeen) < 5 THEN Len(FirstSeen) ELSE 5)
        /\ \A i \in 1..n :
              /\ recommendations[i].recipe \in Range(FirstSeen)
              /\ recommendations[i].score = ScoreOf(recommendations[i].recipe)
        /\ \A i, j \in 1..n :
              i < j =>
                /\ recommendations[i].recipe # recommendations[j].recipe
                /\ ~IsLT(recommendations[i].score, recommendations[j].score)
                /\ recommendations[i].score = recommendations[j].score
                   => Place(recommendations[i].recipe)
                        < Place(recommendations[j].recipe)
        /\ \A i \in 1..n :
              \A recipe \in Range(FirstSeen)
                              \ {recommendations[j].recipe : j \in 1..n} :
                 ~IsLT(recommendations[i].score, ScoreOf(recipe))

\* The rows of a price table without their last_updated.
PricesOf(table) ==
    [i \in 1..Len(table) |->
       <<table[i].ingredient, table[i].unit, table[i].price_per_unit>>]

\* A price save of the very table that is persisted: a retry.
IsRetry == IsPriceSave /\ PricesOf(pricing_file') = PricesOf(pricing_file)

C27_Step == IsRetry => price_history_file' = price_history_file

\* C27: a price save of a table whose rows (last_updated aside) are the
\* persisted ones appends nothing to the price history and leaves the
\* persisted prices as they are, also for a table that holds two rows with
\* the same key up to case.
C27_SaveIdempotent == [][C27_Step]_vars

----------------------------------------------------------------------------
(* Properties of "Add New Recipe", under SpecAddRecipe.                     *)

\* The number of commas of a typed line.
Commas(line) == Cardinality({i \in 1..Len(line) : line[i] = ","})

\* The characters of a line between its first and its second comma, without
\* the blanks around them: the quantity as typed.
TypedQuantity(line) ==
    LET first  == CHOOSE i \in 1..Len(line) :
                     line[i] = "," /\ \A m \in 1..(i - 1) : line[m] # ","
        second == CHOOSE i \in (first + 1)..Len(line) :
                     line[i] = "," /\ \A m \in (first + 1)..(i - 1) : line[m] # ","
    IN  SelectSeq(SubSeq(line, first + 1, second - 1), LAMBDA c : c # " ")

\* A typed text is a number: digits after at most one sign.
IsNumber(text) ==
    LET digits == IF text # << >> /\ Head(text) \in {"-", "+"}
                  THEN Tail(text) ELSE text
    IN  digits # << >> /\ \A i \in 1..Len(digits) : IsDigit(digits[i])

\* A typed line is well-formed: three or four parts, the second a number.
WellFormed(line) == Commas(line) \in {2, 3} /\ IsNumber(TypedQuantity(line))

IsBlankLine(line) == \A i \in 1..Len(line) : line[i] = " "

\* The row of a well-formed line: its parts without the blanks around them
\* and the metadata of the form.
RowOfLine(line, name, meta) ==
    LET parts == Split(line, ",")
    IN  RecipeLine(name, Word(Strip(parts[1])),
                   FloatOfText(Strip(parts[2])).value, Word(Strip(parts[3])),
                   IF Len(parts) = 4 THEN Word(Strip(parts[4])) ELSE "",
                   meta.servings, meta.rating, meta.cook_time)

\* The rows a step added below the rows of the table.
AddedRows == SubSeq(recipes_file', Len(recipes_file) + 1, Len(recipes_file'))

C24_Step ==
    add_recipe'.clicked = "text" /\ add_recipe'.new_recipe_name # "" =>
      LET lines == SelectSeq(Split(add_recipe'.new_ingredients, "\n"),
                             LAMBDA l : ~IsBlankLine(l))
          good  == SelectSeq(lines, WellFormed)
          bad   == SelectSeq(lines, LAMBDA l : ~WellFormed(l))
      IN  /\ add_recipe'.errors = bad
          /\ Len(recipes_file') = Len(recipes_file) + Len(good)
          /\ load_data(SubSeq(recipes_file', 1, Len(recipes_file))) = recipes
          /\ \A i \in 1..Len(good) :
                \E meta \in NewMetadata :
                   AddedRows[i] = RowOfLine(good[i], add_recipe'.new_recipe_name, meta)
          /\ good = << >> => recipes_file' = recipes_file

\* C24: a "Save Recipe" click in text format reports exactly one error for
\* every non-blank line that has not three or four parts or whose quantity
\* is no number, and stores no row for it; it adds the rows of the other
\* lines, in the order typed, below the table; when no line is well-formed
\* the recipes file is left as it is.
C24_TextFormatErrors == [][C24_Step]_vars

\* C25: every row that "Add New Recipe" stores has a quantity of 0 or more
\* (the rows the session starts on have).
C25_NonNegativeQuantity ==
    \A i \in 1..Len(recipes_file) : recipes_file[i].quantity >= 0

----------------------------------------------------------------------------
(* Properties of the edit tab.                                              *)

\* The recipe-level metadata of a line that the model keeps.
Metadata(r) == <<r.cook_time, r.rating, r.servings>>

\* C23: all lines of the recipe table that share a recipe_name carry the
\* same recipe-level metadata (cook_time, rating, servings), after any
\* sequence of Add New Recipe, Save Rating, Save Changes, Duplicate Recipe
\* and Delete Recipe from a table where they do.
C23_UniformMetadata ==
    \A i, j \in 1..Len(recipes) :
        recipes[i].recipe_name = recipes[j].recipe_name =>
            Metadata(recipes[i]) = Metadata(recipes[j])

\* The rows of a table that belong, or do not belong, to a recipe.
LinesOf(table, recipe) ==
    SelectSeq(table, LAMBDA r : r.recipe_name = recipe)

OtherLines(table, recipe) ==
    SelectSeq(table, LAMBDA r : r.recipe_name # recipe)

\* C30: "Save Ingredient Changes" under a recipe filter saves the previous
\* table with the filtered recipe's lines replaced by the editor's contents
\* (edited rows updated, added rows added, deleted rows removed), and every
\* line of every other recipe is unchanged.
C30_Step ==
    \A recipe_filter \in RecipeNames(recipes), change \in EditorChanges :
        SaveFilteredIngredientChanges(recipe_filter, change) =>
            LET editable == Editable(recipe_filter, change)
            IN  /\ LinesOf(recipes_file', recipe_filter) =
                      [k \in 1..Len(editable) |-> editable[k].row]
                /\ OtherLines(recipes_file', recipe_filter) =
                      OtherLines(recipes, recipe_filter)

C30_FilteredSaveMerges == [][C30_Step]_vars

----------------------------------------------------------------------------
(* Properties of the meal history.                                          *)

\* The entries a step added below the history it started from.
AddedEntries ==
    SubSeq(meal_history_file', Len(meal_history_file) + 1,
           Len(meal_history_file'))

\* C28: a step that renames or deletes a recipe leaves the meal history as
\* it is, and a step that changes the meal history keeps every earlier
\* entry and adds below them one entry per selected recipe, in the order of
\* the selection, all with the same week_start, one of the dates the input
\* offers.
C28_Step ==
    /\ RecipeNames(recipes_file') # RecipeNames(recipes_file) =>
          meal_history_file' = meal_history_file
    /\ meal_history_file' # meal_history_file =>
          /\ Len(meal_history_file') =
                Len(meal_history_file) + Len(planner.selected_recipes)
          /\ SubSeq(meal_history_file', 1, Len(meal_history_file)) =
                meal_history_file
          /\ \E week_date \in WeekDates :
                \A i \in 1..Len(planner.selected_recipes) :
                   AddedEntries[i] =
                      HistoryRow(week_date, planner.selected_recipes[i])

C28_HistoryKeptAndAppended == [][C28_Step]_vars

\* An entry of the week just saved stands below an entry that names a
\* recipe the table no longer has.
C28_Witness ==
    /\ Len(meal_history_file) >= 2
    /\ meal_history_file[1].recipe_name \notin RecipeNames(recipes)
    /\ meal_history_file[Len(meal_history_file)].week_start \in WeekDates

----------------------------------------------------------------------------
(* Nothing is lost between the selected recipes and the shopping list.      *)

\* C29: every scaled line of a selected recipe whose ingredient is no pantry
\* staple (lower-cased) falls into exactly one line of the shopping list, the
\* line of its (ingredient, unit, category), also when its category is
\* missing; and with an empty pantry the shopping cost is the meal cost.
C29_NoLineLost ==
    planner.shown =>
      /\ \A r \in Range(planner.selected_data) :
            Lower(r.ingredient) \notin Staples =>
               Cardinality({n \in 1..Len(planner.shopping_list) :
                               Triple(planner.shopping_list[n]) = Triple(r)}) = 1
      /\ Staples = {} => planner.shopping_list_cost = planner.meal_cost

----------------------------------------------------------------------------
(* Properties of two sessions.                                              *)

\* The sessions other than s.
Others(s) == Sessions \ {s}

\* C26: a run's save writes the whole table the run loaded, with the run's
\* own change and nothing else; when no other session has been opened, that
\* is the change applied on top of the table persisted last.
C26_Step ==
    \A s \in Sessions :
        script_runs[s].at = "loaded" /\ script_runs'[s].at = "saved" =>
            LET run == script_runs[s]
            IN  /\ recipes_file' =
                      WithRating(run.recipes, run.recipe, run.new_rating)
                /\ (\A t \in Others(s) : script_runs[t].at = "new") =>
                      recipes_file' =
                         WithRating(load_data(recipes_file), run.recipe,
                                    run.new_rating)

C26_LoadThenOverwrite == [][C26_Step]_vars

\* The lost update: both sessions loaded the same table, each saved the
\* rating of another recipe, and the file lacks the rating that the first
\* session saved.
C26_Witness ==
    /\ \A s \in Sessions : script_runs[s].at = "saved"
    /\ script_runs[1].recipes = script_runs[2].recipes
    /\ script_runs[1].recipe = "Pasta"
    /\ script_runs[2].recipe = "Salad"
    /\ FirstLine("Pasta").rating # script_runs[1].new_rating
    /\ FirstLine("Salad").rating = script_runs[2].new_rating

====
